---- MODULE Spec2Model ----
(***************************************************************************)
(* A model of compeek's diff pipeline: GitDiffParser.parseDiff and the     *)
(* unified-diff text parser behind it (src/src/server/git-diff.ts), with   *)
(* the argument helpers of src/src/cli/index.ts (cli/utils), the action    *)
(* of the CLI (src/src/cli/index.ts), startServer and findAvailablePort     *)
(* (src/src/server/server.ts) and the client App (src/src/client/App.tsx). *)
(*                                                                         *)
(* Text representation.  A string is the sequence of its pieces ("tokens", *)
(* each a TLA+ string standing for that exact run of characters); a text   *)
(* with line breaks is the sequence of the '\n'-separated lines, each a    *)
(* sequence of tokens, exactly what String.split('\n') returns: the empty  *)
(* string is << <<>> >> and a text that ends in '\n' has a last line <<>>. *)
(* startsWith/includes/regular expressions are evaluated on the tokens.    *)
(*                                                                         *)
(* CHOOSE r \in {F(x) : x \in {e}} : TRUE is F(e) with e evaluated once.    *)
(***************************************************************************)
EXTENDS Integers, Sequences, FiniteSets, TLC

VARIABLES
    app,              \* the state of the client App and its requests in flight
    pc,               \* position of the running call
    target,           \* parseDiff argument targetCommitish
    base,             \* parseDiff argument baseCommitish
    ignoreWhitespace, \* parseDiff argument ignoreWhitespace
    resolvedCommit,   \* local resolvedCommit (the label)
    diffArgs,         \* local diffArgs
    allFiles,         \* local allFiles of the no-commit branch
    fileIdx,          \* loop position of createSyntheticDiffForAllFiles
    rawDiff,          \* local rawDiff / syntheticDiff: the text to parse
    files,            \* DiffFile[] returned by parseDiffOutput
    io,               \* history of the calls made to git, the filesystem,
                      \* the terminal and the network
    result,           \* what the call returned or threw
    cli,              \* the locals and the position of the CLI's action
    server,           \* the locals of startServer and what serve() was given
    ports,            \* the state of the machine's TCP ports
    preferredPort,    \* argument of the running findAvailablePort call
    found             \* what findAvailablePort settled with

\* the variables of parseDiff other than io
gitVars == <<pc, target, base, ignoreWhitespace, resolvedCommit, diffArgs,
             allFiles, fileIdx, rawDiff, files, result>>

\* the variables of the CLI, of startServer, of findAvailablePort and of
\* the client
hostVars == <<cli, server, ports, preferredPort, found, app>>

vars == <<pc, target, base, ignoreWhitespace, resolvedCommit, diffArgs,
          allFiles, fileIdx, rawDiff, files, io, result,
          cli, server, ports, preferredPort, found, app>>

(***************************************************************************)
(* Bounds of the model.                                                    *)
(***************************************************************************)
MaxChunkLines == 5
MaxBlockLines == 4
MaxFiles == 3
MaxLoads == 4          \* calls of loadDiffs that are followed
MaxProbes == 3             \* ports after the default one that a search may try

(***************************************************************************)
(* Strings.                                                                *)
(***************************************************************************)
Undefined == -1            \* a number field that is undefined
NoString == <<>>           \* a string field that is undefined

Min(a, b) == IF a < b THEN a ELSE b

EmptyText == << <<>> >>

\* s += line + '\n'
WriteLine(text, line) ==
    SubSeq(text, 1, Len(text) - 1) \o << text[Len(text)] \o line, <<>> >>

StartsWith(line, tok) == Len(line) >= 1 /\ line[1] = tok

Includes(line, tok) == \E i \in 1..Len(line) : line[i] = tok

WhiteSpace == {" ", "  "}

\* s.trim() === ''
TrimIsEmpty(s) == \A i \in 1..Len(s) : s[i] \in WhiteSpace

\* block.trim() is falsy, for a block given by its lines
BlockIsBlank(lines) == \A i \in 1..Len(lines) : TrimIsEmpty(lines[i])

Digits == {"0", "1", "2", "3", "4", "5", "6", "7", "8", "9"}

DigitValue(d) ==
    CASE d = "0" -> 0 [] d = "1" -> 1 [] d = "2" -> 2 [] d = "3" -> 3
      [] d = "4" -> 4 [] d = "5" -> 5 [] d = "6" -> 6 [] d = "7" -> 7
      [] d = "8" -> 8 [] d = "9" -> 9

DigitOf(n) ==
    CASE n = 0 -> "0" [] n = 1 -> "1" [] n = 2 -> "2" [] n = 3 -> "3"
      [] n = 4 -> "4" [] n = 5 -> "5" [] n = 6 -> "6" [] n = 7 -> "7"
      [] n = 8 -> "8" [] n = 9 -> "9"

\* parseInt of a string of digits
RECURSIVE parseInt(_)
parseInt(s) ==
    IF s = <<>> THEN 0
    ELSE 10 * parseInt(SubSeq(s, 1, Len(s) - 1)) + DigitValue(s[Len(s)])

\* `${n}` for a number n >= 0
RECURSIVE NumberToString(_)
NumberToString(n) ==
    IF n < 10 THEN <<DigitOf(n)>>
    ELSE NumberToString(n \div 10) \o <<DigitOf(n % 10)>>

\* length of the longest run of digits of line that starts at position p: (\d+)
RECURSIVE DigitRun(_, _)
DigitRun(line, p) ==
    IF p <= Len(line) /\ line[p] \in Digits THEN 1 + DigitRun(line, p + 1) ELSE 0

(***************************************************************************)
(* parseChunks                                                             *)
(***************************************************************************)
\* line.match(/^@@ -(\d+)(?:,(\d+))? \+(\d+)(?:,(\d+))? @@/): the four groups,
\* an absent group being NoString; ok is whether the line matches.
HunkHeaderMatch(line) ==
    LET n1 == DigitRun(line, 3)
        p1 == 3 + n1
        n2 == IF p1 <= Len(line) /\ line[p1] = "," THEN DigitRun(line, p1 + 1) ELSE 0
        p2 == IF n2 > 0 THEN p1 + 1 + n2 ELSE p1
        n3 == DigitRun(line, p2 + 1)
        p3 == p2 + 1 + n3
        n4 == IF p3 <= Len(line) /\ line[p3] = "," THEN DigitRun(line, p3 + 1) ELSE 0
        p4 == IF n4 > 0 THEN p3 + 1 + n4 ELSE p3
        ok == /\ Len(line) >= 2 /\ line[1] = "@@" /\ line[2] = " -"
              /\ n1 > 0
              /\ p2 <= Len(line) /\ line[p2] = " +"
              /\ n3 > 0
              /\ p4 <= Len(line) /\ line[p4] = " @@"
    IN  IF ok
        THEN [ok |-> TRUE,
              g1 |-> SubSeq(line, 3, p1 - 1),
              g2 |-> IF n2 > 0 THEN SubSeq(line, p1 + 1, p2 - 1) ELSE NoString,
              g3 |-> SubSeq(line, p2 + 1, p3 - 1),
              g4 |-> IF n4 > 0 THEN SubSeq(line, p3 + 1, p4 - 1) ELSE NoString]
        ELSE [ok |-> FALSE, g1 |-> NoString, g2 |-> NoString,
              g3 |-> NoString, g4 |-> NoString]

\* a default that also replaces a count of 0
OrOneForZero(group) == IF group = NoString \/ group = <<"0">> THEN <<"1">> ELSE group

\* match[k] || '1'
OrOne(group) == IF group = NoString THEN <<"1">> ELSE group

\* a scan that takes ' ' and '+' lines only
IsContentLineNoDeleted(line) == StartsWith(line, " ") \/ StartsWith(line, "+")

IsContentLine(line) ==
    StartsWith(line, " ") \/ StartsWith(line, "+") \/ StartsWith(line, "-")

LineType(line) ==
    IF StartsWith(line, "+") THEN "added"
    ELSE IF StartsWith(line, "-") THEN "deleted" ELSE "context"

\* a DiffLine numbered after the counters were incremented
MakeDiffLineIncrementFirst(line, oldLineNumber, newLineNumber) ==
    LET type == LineType(line)
    IN  [type |-> type,
         content |-> Tail(line),
         oldLineNumber |-> IF type # "added" THEN oldLineNumber + 1 ELSE Undefined,
         newLineNumber |-> IF type # "deleted" THEN newLineNumber + 1 ELSE Undefined]

\* the DiffLine built for a content line under the running counters
MakeDiffLine(line, oldLineNumber, newLineNumber) ==
    LET type == LineType(line)
    IN  [type |-> type,
         content |-> Tail(line),
         oldLineNumber |-> IF type # "added" THEN oldLineNumber ELSE Undefined,
         newLineNumber |-> IF type # "deleted" THEN newLineNumber ELSE Undefined]

\* the state of the loop of parseChunks before any line
ChunkScanInit ==
    [chunks |-> <<>>, open |-> FALSE,
     currentChunk |-> [oldStart |-> 0, oldLines |-> 0, newStart |-> 0,
                       newLines |-> 0, lines |-> <<>>],
     oldLineNumber |-> 0, newLineNumber |-> 0]

\* one iteration of the loop of parseChunks (open: currentChunk is not null)
ChunkScanStep(s, line) ==
    IF StartsWith(line, "@@")
    THEN LET match == HunkHeaderMatch(line)
         IN  IF match.ok
             THEN LET oldStart == parseInt(match.g1)
                      oldLines == parseInt(OrOne(match.g2))
                      newStart == parseInt(match.g3)
                      newLines == parseInt(OrOne(match.g4))
                  IN  [chunks |-> IF s.open THEN Append(s.chunks, s.currentChunk)
                                  ELSE s.chunks,
                       open |-> TRUE,
                       currentChunk |-> [oldStart |-> oldStart, oldLines |-> oldLines,
                                         newStart |-> newStart, newLines |-> newLines,
                                         lines |-> <<>>],
                       oldLineNumber |-> oldStart,
                       newLineNumber |-> newStart]
             ELSE s
    ELSE IF s.open /\ IsContentLine(line)
    THEN LET diffLine == MakeDiffLine(line, s.oldLineNumber, s.newLineNumber)
         IN  [s EXCEPT
                !.currentChunk.lines = Append(@, diffLine),
                !.oldLineNumber = IF diffLine.type # "added" THEN @ + 1 ELSE @,
                !.newLineNumber = IF diffLine.type # "deleted" THEN @ + 1 ELSE @]
    ELSE s

\* the state of the loop after the first n lines
RECURSIVE ChunkScan(_, _)
ChunkScan(lines, n) ==
    IF n = 0 THEN ChunkScanInit
    ELSE CHOOSE next \in {ChunkScanStep(s, lines[n]) : s \in {ChunkScan(lines, n - 1)}} :
            TRUE

parseChunks(lines) ==
    CHOOSE chunks \in
        { IF s.open THEN Append(s.chunks, s.currentChunk) ELSE s.chunks :
            s \in {ChunkScan(lines, Len(lines))} } : TRUE

(***************************************************************************)
(* parseFileBlock, isImageFile, parseDiffOutput                            *)
(***************************************************************************)
ImageExtensions == {".png", ".jpg", ".jpeg", ".gif", ".bmp", ".svg", ".webp"}

\* the pieces of a file name that begin with '.', in both cases
DotPieces == ImageExtensions \cup {".PNG", ".txt"}

\* s.toLowerCase(), piece by piece
ToLowerCase(s) == [i \in 1..Len(s) |-> IF s[i] = ".PNG" THEN ".png" ELSE s[i]]

\* s.lastIndexOf('.'), as the position of the piece holding it (0: none)
LastIndexOfDot(s) ==
    IF \E i \in 1..Len(s) : s[i] \in DotPieces
    THEN CHOOSE i \in 1..Len(s) :
            /\ s[i] \in DotPieces
            /\ \A j \in (i + 1)..Len(s) : s[j] \notin DotPieces
    ELSE 0

\* a test of the extension that keeps the case of the name
isImageFileCaseSensitive(filename) ==
    LET at == LastIndexOfDot(filename)
        ext == IF at = 0 THEN filename ELSE SubSeq(filename, at, Len(filename))
    IN  \E e \in ImageExtensions : ext = <<e>>

isImageFile(filename) ==
    LET lower == ToLowerCase(filename)
        at == LastIndexOfDot(lower)
        \* substring(-1) is substring(0)
        ext == IF at = 0 THEN lower ELSE SubSeq(lower, at, Len(lower))
    IN  \E e \in ImageExtensions : ext = <<e>>

\* firstLine.match(/^a\/(.+) b\/(.+)$/): the first group is greedy, so the
\* separator is the last ' b/' that leaves both groups non-empty.
FileMatch(firstLine) ==
    LET seps == {i \in 3..(Len(firstLine) - 1) : firstLine[i] = " b/"}
    IN  IF Len(firstLine) >= 1 /\ firstLine[1] = "a/" /\ seps # {}
        THEN LET at == CHOOSE i \in seps : \A j \in seps : j <= i
             IN  [ok |-> TRUE,
                  g1 |-> SubSeq(firstLine, 2, at - 1),
                  g2 |-> SubSeq(firstLine, at + 1, Len(firstLine))]
        ELSE [ok |-> FALSE, g1 |-> NoString, g2 |-> NoString]

\* lines.find(pred) is not undefined
HasLineStartingWith(lines, tok) == \E i \in 1..Len(lines) : StartsWith(lines[i], tok)

HasLineIncluding(lines, tok) == \E i \in 1..Len(lines) : Includes(lines[i], tok)

\* a binary test that stops at the first hunk header
BinaryMatchBeforeHunks(lines) ==
    \E i \in 1..Len(lines) :
        /\ Includes(lines[i], "Binary files")
        /\ \A j \in 1..(i - 1) : ~StartsWith(lines[j], "@@")

\* lines.find((line) => line.includes('Binary files')) is not undefined
BinaryMatch(lines) == HasLineIncluding(lines, "Binary files")

\* the classification of parseFileBlock: status and filename
FileStatus(lines) ==
    IF HasLineStartingWith(lines, "new file mode") THEN "added"
    ELSE IF HasLineStartingWith(lines, "deleted file mode") THEN "deleted"
    ELSE IF HasLineStartingWith(lines, "rename from") THEN "renamed"
    ELSE "modified"

RECURSIVE CountLines(_, _)
\* the number of lines of the given type in a sequence of DiffLines
CountLines(lines, type) ==
    IF lines = <<>> THEN 0
    ELSE CountLines(Tail(lines), type) + (IF Head(lines).type = type THEN 1 ELSE 0)

\* a count over the last chunk only
CountInLastChunk(chunks, type) ==
    IF chunks = <<>> THEN 0 ELSE CountLines(chunks[Len(chunks)].lines, type)

RECURSIVE CountInChunks(_, _)
CountInChunks(chunks, type) ==
    IF chunks = <<>> THEN 0
    ELSE CountLines(Head(chunks).lines, type) + CountInChunks(Tail(chunks), type)

\* parseFileBlock: <<>> for null, else << the DiffFile >>.  isBinary and
\* isImage absent from the object are FALSE here.
parseFileBlock(lines) ==
    IF Len(lines) = 0 THEN <<>>
    ELSE LET fileMatch == FileMatch(lines[1])
         IN  IF ~fileMatch.ok THEN <<>>
             ELSE LET oldFilename == fileMatch.g1
                      newFilename == fileMatch.g2
                      status == FileStatus(lines)
                      filename == IF status = "deleted" THEN oldFilename ELSE newFilename
                      binaryMatch == BinaryMatch(lines)
                  IN  IF binaryMatch
                      THEN << [filename |-> filename,
                               oldFilename |-> IF status = "renamed" THEN oldFilename
                                               ELSE NoString,
                               status |-> status,
                               additions |-> 0,
                               deletions |-> 0,
                               chunks |-> <<>>,
                               isBinary |-> TRUE,
                               isImage |-> isImageFile(filename)] >>
                      ELSE CHOOSE file \in
                             { << [filename |-> filename,
                                   oldFilename |-> IF status = "renamed" THEN oldFilename
                                                   ELSE NoString,
                                   status |-> status,
                                   additions |-> CountInChunks(chunks, "added"),
                                   deletions |-> CountInChunks(chunks, "deleted"),
                                   chunks |-> chunks,
                                   isBinary |-> FALSE,
                                   isImage |-> FALSE] >> :
                                 chunks \in {parseChunks(lines)} } : TRUE

\* the state of diffText.split(/^diff --git /m) after n lines of the text:
\* the pieces closed so far and the lines of the piece being read
RECURSIVE SplitScan(_, _)
SplitScan(text, n) ==
    IF n = 0 THEN [blocks |-> <<>>, cur |-> <<>>]
    ELSE CHOOSE next \in
            { IF StartsWith(text[n], "diff --git ")
              THEN [blocks |-> Append(s.blocks, Append(s.cur, <<>>)),
                    cur |-> <<Tail(text[n])>>]
              ELSE [blocks |-> s.blocks, cur |-> Append(s.cur, text[n])] :
                s \in {SplitScan(text, n - 1)} } : TRUE

\* diffText.split(/^diff --git /m), each piece already split on '\n'
SplitBlocks(text) ==
    CHOOSE blocks \in
        { Append(s.blocks, s.cur) : s \in {SplitScan(text, Len(text))} } : TRUE

\* .filter((block) => block.trim())
RECURSIVE FilterBlocks(_)
FilterBlocks(blocks) ==
    IF blocks = <<>> THEN <<>>
    ELSE (IF BlockIsBlank(Head(blocks)) THEN <<>> ELSE <<Head(blocks)>>)
         \o FilterBlocks(Tail(blocks))

fileBlocks(diffText) ==
    CHOOSE kept \in {FilterBlocks(blocks) : blocks \in {SplitBlocks(diffText)}} : TRUE

\* the DiffFiles pushed in the opposite order
RECURSIVE ParseBlocksReversed(_)
ParseBlocksReversed(blocks) ==
    IF blocks = <<>> THEN <<>>
    ELSE CHOOSE fs \in
            { ParseBlocksReversed(rest) \o parseFileBlock(block) :
                block \in {Head(blocks)}, rest \in {Tail(blocks)} } : TRUE

RECURSIVE ParseBlocks(_)
ParseBlocks(blocks) ==
    IF blocks = <<>> THEN <<>>
    ELSE CHOOSE fs \in
            { parseFileBlock(block) \o ParseBlocks(rest) :
                block \in {Head(blocks)}, rest \in {Tail(blocks)} } : TRUE

parseDiffOutput(diffText) ==
    CHOOSE fs \in {ParseBlocks(blocks) : blocks \in {fileBlocks(diffText)}} : TRUE

(***************************************************************************)
(* cli/utils: validateDiffArguments, shortHash, createCommitRangeString    *)
(***************************************************************************)
\* an argument that is undefined
Absent == <<"undefined">>

\* a string of single characters
Chars(n, c) == [i \in 1..n |-> c]

\* a validation that checks compare-with only
validateCompareWithOnly(tgt, compareWith) ==
    IF tgt \in {<<"working">>, <<"staged">>, <<".">>}
    THEN [valid |-> TRUE, error |-> NoString]
    ELSE IF compareWith # Absent /\ (compareWith = <<>> \/ TrimIsEmpty(compareWith))
    THEN [valid |-> FALSE, error |-> <<"Compare-with commit cannot be empty">>]
    ELSE [valid |-> TRUE, error |-> NoString]

validateDiffArguments(tgt, compareWith) ==
    IF tgt \in {<<"working">>, <<"staged">>, <<".">>}
    THEN [valid |-> TRUE, error |-> NoString]
    ELSE IF tgt = <<>> \/ TrimIsEmpty(tgt)
    THEN [valid |-> FALSE, error |-> <<"Target commit cannot be empty">>]
    ELSE IF compareWith # Absent /\ (compareWith = <<>> \/ TrimIsEmpty(compareWith))
    THEN [valid |-> FALSE, error |-> <<"Compare-with commit cannot be empty">>]
    ELSE [valid |-> TRUE, error |-> NoString]

\* hash.substring(0, 7), the hash being a string of single characters
shortHash(hash) == SubSeq(hash, 1, Min(7, Len(hash)))

\* a range written target first
createCommitRangeStringTargetFirst(tgt, bse) ==
    IF tgt = <<"working">> THEN <<"Working Directory (unstaged changes)">>
    ELSE IF tgt = <<"staged">>
    THEN shortHash(bse) \o <<" vs Staging Area (staged changes)">>
    ELSE IF tgt = <<".">>
    THEN shortHash(bse) \o <<" vs Working Directory (all uncommitted changes)">>
    ELSE shortHash(tgt) \o <<"..">> \o shortHash(bse)

createCommitRangeString(tgt, bse) ==
    IF tgt = <<"working">> THEN <<"Working Directory (unstaged changes)">>
    ELSE IF tgt = <<"staged">>
    THEN shortHash(bse) \o <<" vs Staging Area (staged changes)">>
    ELSE IF tgt = <<".">>
    THEN shortHash(bse) \o <<" vs Working Directory (all uncommitted changes)">>
    ELSE shortHash(bse) \o <<"..">> \o shortHash(tgt)

(***************************************************************************)
(* The collaborators of parseDiff: git (simple-git) and the filesystem.    *)
(***************************************************************************)
\* the line 'diff --git a/<old> b/<new>'
GitLine(old, new) == <<"diff --git ", "a/">> \o old \o <<" b/">> \o new

\* the strings parseDiff is called with
Targets ==
    { <<"working">>, <<"staged">>, <<".">>, <<"main">>,
      <<>>, <<"  ">>, <<"--no-index">> }

Bases == { <<"HEAD">>, <<"staged">>, <<>>, <<"  ">>, <<"--no-index">> }

\* what 'git rev-parse <ref>' prints when it succeeds: the object name, or
\* the argument itself for an option it does not know
RevParseOutput(ref) ==
    IF ref = <<"--no-index">>
    THEN <<"-", "-", "n", "o", "-", "i", "n", "d", "e", "x">>
    ELSE IF ref = <<"HEAD">> THEN Chars(4, "a") \o Chars(5, "1")
    ELSE IF ref # <<>> /\ ref[Len(ref)] = "^" THEN Chars(2, "c") \o Chars(7, "3")
    ELSE Chars(3, "b") \o Chars(6, "2")

\* whether 'git rev-parse <ref>' can succeed and can fail in some repository
RevParseCanSucceed(ref) == ref # <<>> /\ ~TrimIsEmpty(ref)

RevParseCanFail(ref) == ref # <<"--no-index">>

RevParseError(ref) == <<"fatal: ambiguous argument '">> \o ref \o <<"'">>

DiffError == <<"fatal: git diff failed">>

StatusError == <<"fatal: not a git repository">>

\* the texts 'git diff' answers with
RawDiffs ==
    { EmptyText,
      << GitLine(<<"f">>, <<"f">>),
         <<"@@", " -", "1", " +", "1", ",", "2", " @@">>,
         <<" ", "c">>, <<"+", "a">>, <<>> >>,
      << <<"diff --git ", "x">>, <<>> >> }

\* the paths and the file contents of the working tree
TreePaths == { <<"p">>, <<"q", ".txt">> }

Contents ==
    { EmptyText,
      << <<"x">>, <<>> >>,
      << <<"Binary files", " are not shown">>, <<"x">> >> }

\* sequences of at most n distinct paths
PathLists(n) ==
    {<<>>} \cup
    UNION { { l \in [1..k -> TreePaths] : \A i, j \in 1..k : l[i] = l[j] => i = j } :
            k \in 1..n }

\* what git.status() can answer: files[].path and not_added
Statuses ==
    { st \in [files : PathLists(Cardinality(TreePaths)),
              not_added : PathLists(Cardinality(TreePaths))] :
        Len(st.files) + Len(st.not_added) <= MaxFiles }

\* the answers of git.status() a run of the CLI is followed over
CliStatuses ==
    { [files |-> <<>>, not_added |-> <<>>],
      [files |-> << <<"p">> >>, not_added |-> <<>>],
      [files |-> << <<"p">> >>, not_added |-> << <<"q", ".txt">> >>] }

\* the answers of git.status() in the no-commit branch: any of Statuses for
\* a call of parseDiff on its own, those of CliStatuses under the CLI
StatusAnswers == IF cli.pc = "idle" THEN Statuses ELSE CliStatuses

\* what reading one path can give: stat throws, not a regular file,
\* readFile throws, or the content
ReadOutcomes ==
    { [kind |-> k, content |-> EmptyText] : k \in {"nostat", "notfile", "noread"} }
    \cup { [kind |-> "content", content |-> c] : c \in Contents }

Event(op, args, ok, out) == [op |-> op, args |-> args, ok |-> ok, out |-> out]

(***************************************************************************)
(* parseDiff                                                               *)
(***************************************************************************)
NoResult == [kind |-> "none", files |-> <<>>, commit |-> NoString,
             isEmpty |-> FALSE, message |-> NoString]

\* a response whose isEmpty is never set
ResponseNeverEmpty(fs, commit) ==
    [kind |-> "response", files |-> fs, commit |-> commit,
     isEmpty |-> FALSE, message |-> NoString]

\* return { files, commit, isEmpty }
Response(fs, commit) ==
    [kind |-> "response", files |-> fs, commit |-> commit,
     isEmpty |-> (Len(fs) = 0), message |-> NoString]

\* the cause rethrown as it is
FailureRethrown(message) ==
    [kind |-> "error", files |-> <<>>, commit |-> NoString, isEmpty |-> FALSE,
     message |-> message]

\* throw new Error(`Failed to parse diff: ${error.message}`)
Failure(message) ==
    [kind |-> "error", files |-> <<>>, commit |-> NoString, isEmpty |-> FALSE,
     message |-> <<"Failed to parse diff: ">> \o message]

\* a test for the fallback that compares the whole argument list
IsSyntheticModeExact(args) == args = << <<"--no-index">>, <<"/dev/null">> >>

IsSyntheticMode(args) == \E i \in 1..Len(args) : args[i] = <<"--no-index">>

(***************************************************************************)
(* The values of the CLI, of startServer and of findAvailablePort.         *)
(***************************************************************************)
\* preferredPort = 3000
DefaultPort == 3000

\* the port the system assigns to listen(0)
EphemeralPort == 49152

\* host = '127.0.0.1'
DefaultHost == <<"127.0.0.1">>

\* the ports a search is followed over
LastPort == DefaultPort + MaxProbes

PortRange == DefaultPort..LastPort

\* a port is free, held by another process, or refuses the caller
PortStates == {"free", "busy", "denied"}

AllFree == [p \in PortRange |-> "free"]

\* findAvailablePort was not called
NotFound == [kind |-> "none", port |-> Undefined, code |-> NoString]

\* the options object before commander has filled it
NoOptions == [port |-> Undefined, host |-> Absent, open |-> TRUE]

\* the CLI was not run
NoCli ==
    [pc |-> "idle", commitish |-> NoString, compareWith |-> Absent,
     options |-> NoOptions, targetCommitish |-> NoString,
     baseCommitish |-> NoString, untracked |-> <<>>, exit |-> Undefined,
     listeners |-> <<>>]

\* the App before its first effect: useState(null), useState(true),
\* useState(null), useState(null)
NoApp ==
    [mounted |-> FALSE, diffData |-> NoResult, loading |-> TRUE, error |-> NoString,
     selectedFile |-> NoString, inflight |-> 0, loads |-> 0]

\* startServer was not called
NoServer ==
    [preferredPort |-> Undefined, host |-> Absent, openBrowser |-> FALSE,
     serving |-> FALSE, port |-> Undefined, hostname |-> Absent,
     url |-> NoString, opened |-> FALSE, bound |-> FALSE]

(***************************************************************************)
(* The parser on texts built line by line.                                 *)
(***************************************************************************)
\* the lines a text of hunks is built from
ChunkLines ==
    { <<"@@", " -", "5", " +", "7", " @@">>,
      <<"@@", " -", "1", "0", ",", "2", " +", "1", ",", "0", " @@", " fn">>,
      <<" ", "c">>,
      <<"+", "a">>,
      <<"-", "d">>,
      <<"\\", " No newline at end of file">>,
      <<"@@", " junk">> }

\* the lines a text of file blocks is built from
BlockLines ==
    { GitLine(<<"f">>, <<"f">>),
      GitLine(<<"f">>, <<"g", ".PNG">>),
      GitLine(<<"d", " b/", "g", ".PNG">>, <<"d", " b/", "g", ".PNG">>),
      <<"diff --git ", "x">>,
      <<"new file mode", " 100644">>,
      <<"deleted file mode", " 100644">>,
      <<"rename from", " f">>,
      <<"Binary files", " a/f and b/g.PNG", " differ">>,
      <<"@@", " -", "1", " +", "1", " @@">>,
      <<"+", "a">>,
      <<"-", "Binary files", " are skipped">>,
      <<" ">> }

\* the number of lines written to rawDiff
NumLines == Len(rawDiff) - 1

Idle ==
    /\ target = NoString /\ base = NoString /\ ignoreWhitespace = FALSE
    /\ resolvedCommit = NoString /\ diffArgs = <<>>
    /\ allFiles = <<>> /\ fileIdx = 0
    /\ files = <<>> /\ io = <<>>
    /\ result = NoResult
    /\ cli = NoCli /\ server = NoServer
    /\ preferredPort = Undefined /\ found = NotFound
    /\ app = NoApp

InitChunks ==
    /\ Idle
    /\ ports = AllFree
    /\ pc = "input"
    /\ rawDiff = WriteLine(EmptyText, GitLine(<<"f">>, <<"f">>))

InitBlocks ==
    /\ Idle
    /\ ports = AllFree
    /\ pc = "input"
    /\ rawDiff = EmptyText

AppendChunkLine(l) ==
    /\ pc = "input"
    /\ NumLines - 1 < MaxChunkLines
    /\ rawDiff' = WriteLine(rawDiff, l)
    /\ UNCHANGED <<pc, target, base, ignoreWhitespace, resolvedCommit, diffArgs,
                   allFiles, fileIdx, files, io, result>>
    /\ UNCHANGED hostVars

AppendBlockLine(l) ==
    /\ pc = "input"
    /\ NumLines < MaxBlockLines
    /\ rawDiff' = WriteLine(rawDiff, l)
    /\ UNCHANGED <<pc, target, base, ignoreWhitespace, resolvedCommit, diffArgs,
                   allFiles, fileIdx, files, io, result>>
    /\ UNCHANGED hostVars

\* const files = this.parseDiffOutput(rawDiff)
ParseText ==
    /\ pc = "input"
    /\ files' = parseDiffOutput(rawDiff)
    /\ pc' = "parsed"
    /\ UNCHANGED <<target, base, ignoreWhitespace, resolvedCommit, diffArgs,
                   allFiles, fileIdx, rawDiff, io, result>>
    /\ UNCHANGED hostVars

NextChunks == (\E l \in ChunkLines : AppendChunkLine(l)) \/ ParseText

NextBlocks == (\E l \in BlockLines : AppendBlockLine(l)) \/ ParseText

SpecChunks == InitChunks /\ [][NextChunks]_vars

SpecBlocks == InitBlocks /\ [][NextBlocks]_vars

\* generateDummyHash
generateDummyHash == Chars(7, "f")

\* s += l + '\n' for each l of lines, in order
RECURSIVE WriteLines(_, _)
WriteLines(text, lines) ==
    IF lines = <<>> THEN text
    ELSE CHOOSE out \in
            { WriteLines(t, rest) :
                t \in {WriteLine(text, Head(lines))}, rest \in {Tail(lines)} } : TRUE

\* what one iteration of createSyntheticDiffForAllFiles appends for a
\* regular file that was read
SyntheticBlock(syntheticDiff, filename, content) ==
    LET lines == content    \* content.split('\n')
    IN  WriteLines(
            WriteLines(syntheticDiff,
                << GitLine(filename, filename),
                   <<"new file mode", " 100644">>,
                   <<"index 0000000..">> \o generateDummyHash,
                   <<"-", "-- /dev/null">>,
                   <<"+", "++ b/">> \o filename,
                   <<"@@", " -", "0", ",", "0", " +", "1", ",">>
                       \o NumberToString(Len(lines)) \o <<" @@">> >>),
            [i \in 1..Len(lines) |-> <<"+">> \o lines[i]])

Init ==
    /\ Idle
    /\ ports = AllFree
    /\ pc = "idle"
    /\ rawDiff = EmptyText

\* parseDiff(targetCommitish, baseCommitish, ignoreWhitespace) is called
CallParseDiff(t, b, iw) ==
    /\ pc = "idle"
    /\ target' = t /\ base' = b /\ ignoreWhitespace' = iw
    /\ pc' = "validate"
    /\ UNCHANGED <<resolvedCommit, diffArgs, allFiles, fileIdx, rawDiff, files,
                   io, result>>
    /\ UNCHANGED hostVars

Validate ==
    /\ pc = "validate"
    /\ LET validation == validateDiffArguments(target, base)
       IN  IF ~validation.valid
           THEN /\ result' = Failure(validation.error)
                /\ pc' = "done"
           ELSE /\ pc' = "resolve"
                /\ UNCHANGED result
    /\ UNCHANGED <<target, base, ignoreWhitespace, resolvedCommit, diffArgs,
                   allFiles, fileIdx, rawDiff, files, io>>
    /\ UNCHANGED hostVars

\* the outcomes git.revparse([ref]) can have: a reference asked for before
\* resolves as it did then
RevParseOutcomes(ref) ==
    {ok \in BOOLEAN :
        /\ ok => RevParseCanSucceed(ref)
        /\ ~ok => RevParseCanFail(ref)
        /\ \A i \in 1..Len(io) :
            (io[i].op = "revparse" /\ io[i].args = <<ref>>) => io[i].ok = ok}

RevParseEvent(ref, ok) ==
    Event("revparse", <<ref>>, ok, IF ok THEN RevParseOutput(ref) ELSE RevParseError(ref))

ResolveWorking ==
    /\ pc = "resolve"
    /\ target = <<"working">>
    /\ resolvedCommit' = <<"Working Directory (unstaged changes)">>
    /\ diffArgs' = <<>>
    /\ pc' = "flags"
    /\ UNCHANGED <<target, base, ignoreWhitespace, allFiles, fileIdx, rawDiff,
                   files, io, result>>
    /\ UNCHANGED hostVars

ResolveStaged ==
    /\ pc = "resolve"
    /\ target # <<"working">> /\ target = <<"staged">>
    /\ \E ok \in RevParseOutcomes(base) :
        /\ io' = Append(io, RevParseEvent(base, ok))
        /\ IF ok
           THEN /\ resolvedCommit' = shortHash(RevParseOutput(base))
                        \o <<" vs Staging Area (staged changes)">>
                /\ diffArgs' = << <<"--cached">>, base >>
                /\ pc' = "flags"
                /\ UNCHANGED result
           ELSE /\ result' = Failure(RevParseError(base))
                /\ pc' = "done"
                /\ UNCHANGED <<resolvedCommit, diffArgs>>
    /\ UNCHANGED <<target, base, ignoreWhitespace, allFiles, fileIdx, rawDiff, files>>
    /\ UNCHANGED hostVars

ResolveDot ==
    /\ pc = "resolve"
    /\ target \notin {<<"working">>, <<"staged">>} /\ target = <<".">>
    /\ \E ok \in RevParseOutcomes(base) :
        /\ io' = Append(io, RevParseEvent(base, ok))
        /\ IF ok
           THEN /\ resolvedCommit' = shortHash(RevParseOutput(base))
                        \o <<" vs Working Directory (all uncommitted changes)">>
                /\ diffArgs' = << base >>
           ELSE /\ resolvedCommit' = <<"Working Directory (all files)">>
                /\ diffArgs' = << <<"--no-index">>, <<"/dev/null">> >>
    /\ pc' = "flags"
    /\ UNCHANGED <<target, base, ignoreWhitespace, allFiles, fileIdx, rawDiff,
                   files, result>>
    /\ UNCHANGED hostVars

ResolveCommits ==
    /\ pc = "resolve"
    /\ target \notin {<<"working">>, <<"staged">>, <<".">>}
    /\ \E okTarget \in RevParseOutcomes(target) :
        IF ~okTarget
        THEN /\ io' = Append(io, RevParseEvent(target, FALSE))
             /\ result' = Failure(RevParseError(target))
             /\ pc' = "done"
             /\ UNCHANGED <<resolvedCommit, diffArgs>>
        ELSE \E okBase \in RevParseOutcomes(base) :
             /\ io' = io \o <<RevParseEvent(target, TRUE), RevParseEvent(base, okBase)>>
             /\ IF okBase
                THEN /\ resolvedCommit' = createCommitRangeString(
                                              RevParseOutput(target), RevParseOutput(base))
                     /\ diffArgs' = << base, target >>
                     /\ pc' = "flags"
                     /\ UNCHANGED result
                ELSE /\ result' = Failure(RevParseError(base))
                     /\ pc' = "done"
                     /\ UNCHANGED <<resolvedCommit, diffArgs>>
    /\ UNCHANGED <<target, base, ignoreWhitespace, allFiles, fileIdx, rawDiff, files>>
    /\ UNCHANGED hostVars

AddWhitespaceFlag ==
    /\ pc = "flags"
    /\ diffArgs' = IF ignoreWhitespace
                   THEN Append(diffArgs, <<"--ignore-all-space">>) ELSE diffArgs
    /\ pc' = "diff"
    /\ UNCHANGED <<target, base, ignoreWhitespace, resolvedCommit, allFiles,
                   fileIdx, rawDiff, files, io, result>>
    /\ UNCHANGED hostVars

\* rawDiff = await this.git.raw(args): it answers a text or throws
GitRaw(args) ==
    \/ \E text \in RawDiffs :
        /\ io' = Append(io, Event("raw", args, TRUE, text))
        /\ rawDiff' = text
        /\ pc' = "parse"
        /\ UNCHANGED result
    \/ /\ io' = Append(io, Event("raw", args, FALSE, DiffError))
       /\ result' = Failure(DiffError)
       /\ pc' = "done"
       /\ UNCHANGED rawDiff

DiffWorkingTree ==
    /\ pc = "diff"
    /\ Len(diffArgs) = 0
    /\ GitRaw(<< <<"diff">>, <<"--unified=3">> >>)
    /\ UNCHANGED <<target, base, ignoreWhitespace, resolvedCommit, diffArgs,
                   allFiles, fileIdx, files>>
    /\ UNCHANGED hostVars

StatusAllFiles ==
    /\ pc = "diff"
    /\ Len(diffArgs) # 0 /\ IsSyntheticMode(diffArgs)
    /\ \/ \E status \in StatusAnswers :
            /\ io' = Append(io, Event("status", <<>>, TRUE, status))
            /\ allFiles' = status.files \o status.not_added
            /\ rawDiff' = EmptyText
            /\ fileIdx' = 0
            /\ pc' = IF Len(allFiles') = 0 THEN "parse" ELSE "synth"
            /\ UNCHANGED result
       \/ /\ io' = Append(io, Event("status", <<>>, FALSE, StatusError))
          /\ result' = Failure(StatusError)
          /\ pc' = "done"
          /\ UNCHANGED <<allFiles, rawDiff, fileIdx>>
    /\ UNCHANGED <<target, base, ignoreWhitespace, resolvedCommit, diffArgs, files>>
    /\ UNCHANGED hostVars

DiffRefs ==
    /\ pc = "diff"
    /\ Len(diffArgs) # 0 /\ ~IsSyntheticMode(diffArgs)
    /\ GitRaw(<< <<"diff">>, <<"--unified=3">> >> \o diffArgs)
    /\ UNCHANGED <<target, base, ignoreWhitespace, resolvedCommit, diffArgs,
                   allFiles, fileIdx, files>>
    /\ UNCHANGED hostVars

\* one iteration of the loop of createSyntheticDiffForAllFiles
ReadFile ==
    /\ pc = "synth"
    /\ fileIdx < Len(allFiles)
    /\ LET filename == allFiles[fileIdx + 1]
       IN  \E o \in ReadOutcomes :
            /\ io' = io \o
                 (IF o.kind = "nostat"
                  THEN << Event("stat", <<filename>>, FALSE, "ENOENT") >>
                  ELSE IF o.kind = "notfile"
                  THEN << Event("stat", <<filename>>, TRUE, "directory") >>
                  ELSE IF o.kind = "noread"
                  THEN << Event("stat", <<filename>>, TRUE, "file"),
                          Event("readFile", <<filename>>, FALSE, "EACCES") >>
                  ELSE << Event("stat", <<filename>>, TRUE, "file"),
                          Event("readFile", <<filename>>, TRUE, o.content) >>)
            /\ rawDiff' = IF o.kind = "content"
                          THEN SyntheticBlock(rawDiff, filename, o.content)
                          ELSE rawDiff
    /\ fileIdx' = fileIdx + 1
    /\ UNCHANGED <<pc, target, base, ignoreWhitespace, resolvedCommit, diffArgs,
                   allFiles, files, result>>
    /\ UNCHANGED hostVars

\* return syntheticDiff
SyntheticDiffReturn ==
    /\ pc = "synth"
    /\ fileIdx = Len(allFiles)
    /\ pc' = "parse"
    /\ UNCHANGED <<target, base, ignoreWhitespace, resolvedCommit, diffArgs,
                   allFiles, fileIdx, rawDiff, files, io, result>>
    /\ UNCHANGED hostVars

\* files = parseDiffOutput(rawDiff); return { files, commit, isEmpty }
ReturnResponse ==
    /\ pc = "parse"
    /\ files' = parseDiffOutput(rawDiff)
    /\ result' = Response(files', resolvedCommit)
    /\ pc' = "done"
    /\ UNCHANGED <<target, base, ignoreWhitespace, resolvedCommit, diffArgs,
                   allFiles, fileIdx, rawDiff, io>>
    /\ UNCHANGED hostVars

Next ==
    \/ \E t \in Targets, b \in Bases, iw \in BOOLEAN : CallParseDiff(t, b, iw)
    \/ Validate
    \/ ResolveWorking
    \/ ResolveStaged
    \/ ResolveDot
    \/ ResolveCommits
    \/ AddWhitespaceFlag
    \/ DiffWorkingTree
    \/ StatusAllFiles
    \/ DiffRefs
    \/ ReadFile
    \/ SyntheticDiffReturn
    \/ ReturnResponse

Spec == Init /\ [][Next]_vars

(***************************************************************************)
(* findAvailablePort                                                       *)
(***************************************************************************)
\* findAvailablePort(p) is called on its own
CallFindAvailablePort(p) ==
    /\ cli.pc = "idle"
    /\ found.kind = "none"
    /\ preferredPort' = p
    /\ found' = [NotFound EXCEPT !.kind = "pending"]
    /\ UNCHANGED <<gitVars, app, io, cli, server, ports>>

\* server.address().port after listen(p) succeeded
AddressPort(p) == IF p = 0 THEN EphemeralPort ELSE p

\* whether listen(p) succeeds: port 0 asks the system for any port
CanListen(p) == p = 0 \/ (p \in PortRange /\ ports[p] = "free")

\* the callback of server.listen: close the probe and resolve
Listening ==
    /\ found.kind = "pending"
    /\ CanListen(preferredPort)
    /\ LET actualPort == AddressPort(preferredPort)
       IN  /\ io' = Append(io, Event("listen", <<preferredPort>>, TRUE, actualPort))
           /\ found' = [kind |-> "resolved", port |-> actualPort, code |-> NoString]
    /\ UNCHANGED <<gitVars, app, cli, server, ports, preferredPort>>

\* an error handler that tries the next port after every error
OnErrorAlwaysRetry ==
    /\ found.kind = "pending"
    /\ preferredPort \in PortRange /\ ports[preferredPort] # "free"
    /\ preferredPort < LastPort
    /\ io' = Append(io, Event("listen", <<preferredPort>>, FALSE,
                              IF ports[preferredPort] = "busy"
                              THEN "EADDRINUSE" ELSE "EACCES"))
    /\ preferredPort' = preferredPort + 1
    /\ UNCHANGED <<gitVars, app, cli, server, ports, found>>

\* server.on('error'): EADDRINUSE tries the next port, any other error
\* rejects.  A search is followed up to LastPort.
OnError ==
    /\ found.kind = "pending"
    /\ preferredPort \in PortRange /\ ports[preferredPort] # "free"
    /\ LET code == IF ports[preferredPort] = "busy" THEN "EADDRINUSE" ELSE "EACCES"
       IN  /\ io' = Append(io, Event("listen", <<preferredPort>>, FALSE, code))
           /\ IF code = "EADDRINUSE"
              THEN /\ preferredPort < LastPort
                   /\ preferredPort' = preferredPort + 1
                   /\ UNCHANGED found
              ELSE /\ found' = [kind |-> "rejected", port |-> Undefined, code |-> code]
                   /\ UNCHANGED preferredPort
    /\ UNCHANGED <<gitVars, app, cli, server, ports>>

InitPorts ==
    /\ Idle
    /\ pc = "idle"
    /\ rawDiff = EmptyText
    /\ ports \in [PortRange -> PortStates]

NextPorts ==
    \/ \E p \in {0} \cup PortRange : CallFindAvailablePort(p)
    \/ Listening
    \/ OnError

SpecPorts == InitPorts /\ [][NextPorts]_vars

\* the event loop runs a callback that is due
SpecPortsFair == SpecPorts /\ WF_vars(Listening) /\ WF_vars(OnError)

(***************************************************************************)
(* The CLI: program.action, handleUntrackedFiles, startServer              *)
(***************************************************************************)
\* the first argument of the command line; left out, commander gives 'HEAD'
Commitishes ==
    { Absent, <<"main">>, <<"working">>, <<"staged">>, <<".">>, <<"  ">> }

\* the second argument of the command line
CompareWiths == { Absent, <<"HEAD">> }

\* the flags of the command line: --port, --host, --no-open
FlagSets ==
    { [port |-> Absent, host |-> Absent, noOpen |-> FALSE],
      [port |-> <<"3", "0", "0", "1">>, host |-> <<"0.0.0.0">>, noOpen |-> FALSE],
      [port |-> Absent, host |-> Absent, noOpen |-> TRUE] }

\* the ports of the machine when the CLI runs
CliPorts ==
    { AllFree,
      [AllFree EXCEPT ![DefaultPort] = "busy"],
      [AllFree EXCEPT ![DefaultPort] = "denied"] }

\* what commander makes of the flags: --port through parseInt, --host with
\* the default '', --no-open as open = false
ParseOptions(flags) ==
    [port |-> IF flags.port = Absent THEN Undefined ELSE parseInt(flags.port),
     host |-> IF flags.host = Absent THEN <<>> ELSE flags.host,
     open |-> ~flags.noOpen]

isSpecialArg(arg) == arg \in {<<"working">>, <<"staged">>, <<".">>}

\* a string that is neither undefined nor ''
Truthy(str) == str # Absent /\ str # <<>>

\* what the untracked-files check of the CLI can be answered by git.status()
UntrackedStatuses ==
    { [files |-> <<>>, not_added |-> l] :
        l \in { <<>>, << <<"p">> >>, << <<".txt">>, <<"p">> >> } }

\* file.startsWith('.')
StartsWithDot(file) == Len(file) >= 1 /\ file[1] \in DotPieces

\* what the user can type at the prompt
Answers == { <<>>, <<"Y">>, <<"n">>, <<" ", "YES", " ">>, <<" ">> }

\* answer.toLowerCase(), piece by piece
LowerCaseAnswer(answer) ==
    [i \in 1..Len(answer) |-> IF answer[i] = "Y" THEN "y"
                              ELSE IF answer[i] = "YES" THEN "yes"
                              ELSE answer[i]]

\* str.trim(): the pieces of white space at both ends are dropped
RECURSIVE TrimStart(_)
TrimStart(str) ==
    IF str # <<>> /\ Head(str) = " " THEN TrimStart(Tail(str)) ELSE str

RECURSIVE TrimEnd(_)
TrimEnd(str) ==
    IF str # <<>> /\ str[Len(str)] = " "
    THEN TrimEnd(SubSeq(str, 1, Len(str) - 1)) ELSE str

\* an answer that is lowercased and not trimmed
NormalizeAnswerNoTrim(answer) == LowerCaseAnswer(answer)

\* answer.toLowerCase().trim()
NormalizeAnswer(answer) == TrimEnd(TrimStart(LowerCaseAnswer(answer)))

\* the command line is parsed and the action starts
RunCli(commitish, compareWith, flags) ==
    /\ cli.pc = "idle"
    /\ pc = "idle"
    /\ found.kind = "none"
    /\ LET arg == IF commitish = Absent THEN <<"HEAD">> ELSE commitish
       IN  cli' = [NoCli EXCEPT !.pc = "base",
                                !.commitish = arg,
                                !.compareWith = compareWith,
                                !.options = ParseOptions(flags),
                                !.targetCommitish = arg]
    /\ UNCHANGED <<gitVars, app, io, server, ports, preferredPort, found>>

\* a choice of base that leaves the target as it was typed when HEAD is missing
DetermineBaseKeepTarget ==
    /\ cli.pc = "base"
    /\ IF Truthy(cli.compareWith)
       THEN /\ cli' = [cli EXCEPT !.baseCommitish = cli.compareWith, !.pc = "untracked"]
            /\ UNCHANGED io
       ELSE IF cli.commitish = <<"working">>
       THEN /\ cli' = [cli EXCEPT !.baseCommitish = <<"staged">>, !.pc = "untracked"]
            /\ UNCHANGED io
       ELSE IF isSpecialArg(cli.commitish)
       THEN /\ cli' = [cli EXCEPT !.baseCommitish = <<"HEAD">>, !.pc = "untracked"]
            /\ UNCHANGED io
       ELSE \E ok \in RevParseOutcomes(<<"HEAD">>) :
            /\ io' = Append(io, RevParseEvent(<<"HEAD">>, ok))
            /\ cli' = IF ok
                      THEN [cli EXCEPT !.baseCommitish = cli.commitish \o <<"^">>,
                                       !.pc = "untracked"]
                      ELSE [cli EXCEPT !.baseCommitish = <<"HEAD">>,
                                       !.pc = "untracked"]
    /\ UNCHANGED <<gitVars, app, server, ports, preferredPort, found>>

\* the choice of targetCommitish and baseCommitish
DetermineBase ==
    /\ cli.pc = "base"
    /\ IF Truthy(cli.compareWith)
       THEN /\ cli' = [cli EXCEPT !.baseCommitish = cli.compareWith, !.pc = "untracked"]
            /\ UNCHANGED io
       ELSE IF cli.commitish = <<"working">>
       THEN /\ cli' = [cli EXCEPT !.baseCommitish = <<"staged">>, !.pc = "untracked"]
            /\ UNCHANGED io
       ELSE IF isSpecialArg(cli.commitish)
       THEN /\ cli' = [cli EXCEPT !.baseCommitish = <<"HEAD">>, !.pc = "untracked"]
            /\ UNCHANGED io
       ELSE \E ok \in RevParseOutcomes(<<"HEAD">>) :
            /\ io' = Append(io, RevParseEvent(<<"HEAD">>, ok))
            /\ cli' = IF ok
                      THEN [cli EXCEPT !.baseCommitish = cli.commitish \o <<"^">>,
                                       !.pc = "untracked"]
                      ELSE [cli EXCEPT !.targetCommitish = <<".">>,
                                       !.baseCommitish = <<"HEAD">>,
                                       !.pc = "untracked"]
    /\ UNCHANGED <<gitVars, app, server, ports, preferredPort, found>>

\* handleUntrackedFiles up to the prompt: findUntrackedFiles
HandleUntrackedFiles ==
    /\ cli.pc = "untracked"
    /\ IF cli.commitish \notin {<<"working">>, <<".">>}
       THEN /\ cli' = [cli EXCEPT !.pc = "validate"]
            /\ UNCHANGED io
       ELSE \/ \E status \in UntrackedStatuses :
                LET untracked == SelectSeq(status.not_added,
                                           LAMBDA file : ~StartsWithDot(file))
                IN  /\ io' = Append(io, Event("status", <<>>, TRUE, status))
                    /\ cli' = [cli EXCEPT !.untracked = untracked,
                                          !.pc = IF Len(untracked) = 0
                                                 THEN "validate" ELSE "prompt"]
            \/ /\ io' = Append(io, Event("status", <<>>, FALSE, StatusError))
               /\ cli' = [cli EXCEPT !.pc = "validate"]
    /\ UNCHANGED <<gitVars, app, server, ports, preferredPort, found>>

\* the answer to the prompt and what follows it: markFilesIntentToAdd on
\* consent, whose failure is caught by the action and ends the process
PromptAnswer ==
    /\ cli.pc = "prompt"
    /\ \E answer \in Answers :
        LET question == Event("question", <<>>, TRUE, answer)
            userConsent == NormalizeAnswer(answer) \in {<<>>, <<"y">>, <<"yes">>}
            args == << <<"add">>, <<"--intent-to-add">> >> \o cli.untracked
        IN  IF userConsent
            THEN \E ok \in BOOLEAN :
                    /\ io' = io \o << question,
                                      Event("raw", args, ok,
                                            IF ok THEN EmptyText ELSE DiffError) >>
                    /\ cli' = IF ok THEN [cli EXCEPT !.pc = "validate"]
                              ELSE [cli EXCEPT !.pc = "exited", !.exit = 1]
            ELSE /\ io' = Append(io, question)
                 /\ cli' = [cli EXCEPT !.pc = "validate"]
    /\ UNCHANGED <<gitVars, app, server, ports, preferredPort, found>>

\* validateDiffArguments(targetCommitish, compareWith), process.exit(1)
ValidateCli ==
    /\ cli.pc = "validate"
    /\ cli' = IF validateDiffArguments(cli.targetCommitish, cli.compareWith).valid
              THEN [cli EXCEPT !.pc = "start"]
              ELSE [cli EXCEPT !.pc = "exited", !.exit = 1]
    /\ UNCHANGED <<gitVars, app, io, server, ports, preferredPort, found>>

\* startServer(options) up to the call of parseDiff
StartServer ==
    /\ cli.pc = "start"
    /\ server' = [NoServer EXCEPT
                    !.preferredPort = IF cli.options.port = Undefined
                                      THEN DefaultPort ELSE cli.options.port,
                    !.host = IF cli.options.host = Absent
                             THEN DefaultHost ELSE cli.options.host,
                    !.openBrowser = cli.options.open]
    /\ target' = cli.targetCommitish
    /\ base' = cli.baseCommitish
    /\ ignoreWhitespace' = FALSE
    /\ pc' = "validate"
    /\ cli' = [cli EXCEPT !.pc = "parsing"]
    /\ UNCHANGED <<resolvedCommit, diffArgs, allFiles, fileIdx, rawDiff, files,
                   result, io, ports, preferredPort, found, app>>

\* parseDiff threw: startServer rejects and the action's catch exits
ParseDiffFailed ==
    /\ cli.pc = "parsing"
    /\ pc = "done" /\ result.kind = "error"
    /\ cli' = [cli EXCEPT !.pc = "exited", !.exit = 1]
    /\ UNCHANGED <<gitVars, app, io, server, ports, preferredPort, found>>

\* const port = await findAvailablePort(preferredPort)
FindPort ==
    /\ cli.pc = "parsing"
    /\ pc = "done" /\ result.kind = "response"
    /\ preferredPort' = server.preferredPort
    /\ found' = [NotFound EXCEPT !.kind = "pending"]
    /\ cli' = [cli EXCEPT !.pc = "port"]
    /\ UNCHANGED <<gitVars, app, io, server, ports>>

\* findAvailablePort rejected: startServer rejects and the action's catch exits
PortRejected ==
    /\ cli.pc = "port"
    /\ found.kind = "rejected"
    /\ cli' = [cli EXCEPT !.pc = "exited", !.exit = 1]
    /\ UNCHANGED <<gitVars, app, io, server, ports, preferredPort, found>>

\* another process takes the port that findAvailablePort has just released
TakePort ==
    /\ cli.pc = "port"
    /\ found.kind = "resolved"
    /\ found.port \in PortRange /\ ports[found.port] = "free"
    /\ ports' = [ports EXCEPT ![found.port] = "busy"]
    /\ UNCHANGED <<gitVars, app, io, cli, server, preferredPort, found>>

\* a browser that is opened whenever openBrowser is set
OpensBrowserAlways(openBrowser, isEmpty) == openBrowser

\* if (openBrowser && !diffData.isEmpty)
OpensBrowser(openBrowser, isEmpty) == openBrowser /\ ~isEmpty

\* the rest of startServer: the url, serve(), open(url), resolve, and the
\* registration of shutdown for SIGINT.  serve() returns before the port is
\* bound and the promise is resolved whatever becomes of the binding.
Serve ==
    /\ cli.pc = "port"
    /\ found.kind = "resolved"
    /\ LET host == server.host
           displayHost == IF host = DefaultHost \/ host = <<>>
                          THEN <<"localhost">> ELSE host
           url == <<"http://">> \o displayHost \o <<":">> \o NumberToString(found.port)
           opens == OpensBrowser(server.openBrowser, result.isEmpty)
       IN  /\ server' = [server EXCEPT !.serving = TRUE,
                                       !.port = found.port,
                                       !.hostname = host,
                                       !.url = url,
                                       !.opened = opens,
                                       !.bound = CanListen(found.port)]
           /\ \E ok \in BOOLEAN :
                io' = IF opens THEN Append(io, Event("open", <<url>>, ok, "")) ELSE io
    /\ cli' = [cli EXCEPT !.pc = "started", !.listeners = Append(@, "shutdown")]
    /\ UNCHANGED <<gitVars, app, ports, preferredPort, found>>

\* the action after await startServer: the messages and process.on('SIGINT')
ServerStarted ==
    /\ cli.pc = "started"
    /\ io' = Append(io, Event("log", <<"compeek server started on ", server.url>>,
                              TRUE, server.port))
    /\ cli' = [cli EXCEPT !.pc = "running", !.listeners = Append(@, "cli")]
    /\ UNCHANGED <<gitVars, app, server, ports, preferredPort, found>>

\* the listeners of SIGINT run in the order of their registration, each to
\* its first await; process.exit ends the process at once.  st is the
\* process: what it printed and requested, and whether it has exited.
RECURSIVE RunListeners(_, _)
RunListeners(listeners, st) ==
    IF listeners = <<>> \/ st.exited THEN st
    ELSE RunListeners(Tail(listeners),
            IF Head(listeners) = "shutdown"
            THEN [st EXCEPT !.exited = TRUE]
            ELSE [st EXCEPT !.io = @ \o
                    << Event("log", <<"Shutting down compeek server...">>, TRUE, ""),
                       Event("fetch", <<"http://localhost:", server.port,
                                        "/api/comments-output">>, TRUE, "") >>])

\* SIGINT is delivered to the running process
Sigint ==
    /\ cli.pc = "running"
    /\ LET st == RunListeners(cli.listeners, [io |-> io, exited |-> FALSE])
       IN  /\ io' = st.io
           /\ cli' = IF st.exited
                     THEN [cli EXCEPT !.pc = "exited", !.exit = 0]
                     ELSE [cli EXCEPT !.pc = "shutdown"]
    /\ UNCHANGED <<gitVars, app, server, ports, preferredPort, found>>

InitCli ==
    /\ Idle
    /\ pc = "idle"
    /\ rawDiff = EmptyText
    /\ ports \in CliPorts

NextCli ==
    \/ \E c \in Commitishes, cw \in CompareWiths, flags \in FlagSets : RunCli(c, cw, flags)
    \/ DetermineBase
    \/ HandleUntrackedFiles
    \/ PromptAnswer
    \/ ValidateCli
    \/ StartServer
    \/ Validate
    \/ ResolveWorking
    \/ ResolveStaged
    \/ ResolveDot
    \/ ResolveCommits
    \/ AddWhitespaceFlag
    \/ DiffWorkingTree
    \/ StatusAllFiles
    \/ DiffRefs
    \/ ReadFile
    \/ SyntheticDiffReturn
    \/ ReturnResponse
    \/ ParseDiffFailed
    \/ FindPort
    \/ Listening
    \/ OnError
    \/ PortRejected
    \/ TakePort
    \/ Serve
    \/ ServerStarted
    \/ Sigint

SpecCli == InitCli /\ [][NextCli]_vars

(***************************************************************************)
(* The client: App                                                         *)
(***************************************************************************)
\* what GET /api/diff can answer with
AppResponses ==
    { Response(<<>>, <<"c">>),
      Response(<< [filename |-> <<"f">>] >>, <<"c">>),
      Response(<< [filename |-> <<"g">>], [filename |-> <<"f">>] >>, <<"c">>) }

\* the branch of App's render that is taken
View ==
    IF app.loading THEN "loading"
    ELSE IF app.error # NoString THEN "error"
    ELSE IF app.diffData.kind = "none" \/ app.diffData.isEmpty THEN "empty"
    ELSE "diff"

\* loadDiffs is called and runs to await fetch('/api/diff')
loadDiffs ==
    /\ app.loads < MaxLoads
    /\ app' = [app EXCEPT !.mounted = TRUE, !.inflight = @ + 1, !.loads = @ + 1]
    /\ UNCHANGED <<gitVars, io, cli, server, ports, preferredPort, found>>

\* useEffect(() => { loadDiffs() }, [])
Mount ==
    /\ ~app.mounted
    /\ loadDiffs

\* the Retry button of the error screen: onClick={loadDiffs}
Retry ==
    /\ app.mounted
    /\ View = "error"
    /\ loadDiffs

\* the fetch of a call of loadDiffs answers with data: setDiffData, the
\* first file selected, finally setLoading(false)
FetchSucceeds(data) ==
    /\ app.inflight > 0
    /\ io' = Append(io, Event("fetch", <<"/api/diff">>, TRUE, data))
    /\ app' = [app EXCEPT !.diffData = data,
                          !.selectedFile = IF Len(data.files) > 0
                                           THEN data.files[1].filename ELSE @,
                          !.loading = FALSE,
                          !.inflight = @ - 1]
    /\ UNCHANGED <<gitVars, cli, server, ports, preferredPort, found>>

\* the fetch fails, or answers with a status that is not ok: setError,
\* finally setLoading(false)
FetchFails ==
    /\ app.inflight > 0
    /\ io' = Append(io, Event("fetch", <<"/api/diff">>, FALSE, NoResult))
    /\ app' = [app EXCEPT !.error = <<"Error loading diffs">>,
                          !.loading = FALSE,
                          !.inflight = @ - 1]
    /\ UNCHANGED <<gitVars, cli, server, ports, preferredPort, found>>

\* a file of the list is clicked: onFileSelect={setSelectedFile}
SelectFile ==
    /\ View = "diff"
    /\ \E i \in 1..Len(app.diffData.files) :
        /\ app.diffData.files[i].filename # app.selectedFile
        /\ app' = [app EXCEPT !.selectedFile = app.diffData.files[i].filename]
    /\ UNCHANGED <<gitVars, io, cli, server, ports, preferredPort, found>>

InitApp ==
    /\ Idle
    /\ pc = "idle"
    /\ rawDiff = EmptyText
    /\ ports = AllFree

NextApp ==
    \/ Mount
    \/ Retry
    \/ \E data \in AppResponses : FetchSucceeds(data)
    \/ FetchFails
    \/ SelectFile

SpecApp == InitApp /\ [][NextApp]_vars

(***************************************************************************)
(* Properties of the parser.                                               *)
(***************************************************************************)
\* the blocks of a text that parseFileBlock does not drop, in order
RECURSIVE KeepMatching(_)
KeepMatching(blocks) ==
    IF blocks = <<>> THEN <<>>
    ELSE (IF FileMatch(Head(blocks)[1]).ok THEN <<Head(blocks)>> ELSE <<>>)
         \o KeepMatching(Tail(blocks))

ParsedBlocks == KeepMatching(fileBlocks(rawDiff))

\* positions of the hunk headers of a block
HeaderPositions(lines) == {i \in 1..Len(lines) : HunkHeaderMatch(lines[i]).ok}

\* the k-th smallest member of a set of positions
Kth(positions, k) ==
    CHOOSE i \in positions : Cardinality({j \in positions : j < i}) = k - 1

\* positions of the body of the k-th hunk: up to the next header or the end
HunkBody(lines, headers, k) ==
    LET from == Kth(headers, k) + 1
        to == IF k < Cardinality(headers) THEN Kth(headers, k + 1) - 1 ELSE Len(lines)
    IN  from..to

\* how many lines of the body of the k-th hunk begin with one of the prefixes
BodyCount(lines, headers, k, prefixes) ==
    Cardinality({j \in HunkBody(lines, headers, k) :
                    Len(lines[j]) >= 1 /\ lines[j][1] \in prefixes})

\* the count a header declares: the digits given, or 1
Declared(group) == IF group = NoString THEN 1 ELSE parseInt(group)

TypeCount(chunk, types) ==
    Cardinality({i \in 1..Len(chunk.lines) : chunk.lines[i].type \in types})

LineCountsMatch(chunk) ==
    /\ TypeCount(chunk, {"context", "deleted"}) = chunk.oldLines
    /\ TypeCount(chunk, {"context", "added"}) = chunk.newLines

\* C1 as stated: in every chunk the parser returns, whatever the text, the
\* lines typed context or deleted are oldLines many and the lines typed
\* context or added are newLines many.
C1_LineCountsOfAnyText ==
    pc = "parsed" =>
        \A f \in 1..Len(files) : \A c \in 1..Len(files[f].chunks) :
            LineCountsMatch(files[f].chunks[c])

\* C1 amended: a non-binary file has one chunk per hunk header, whose
\* oldLines and newLines are the counts the header declares (1 when omitted);
\* when the body of the hunk in the text has that many ' '/'-' lines and that
\* many ' '/'+' lines, the typed lines of the chunk count up to oldLines and
\* newLines.
C1_LineCountsOfWellFormedHunks ==
    pc = "parsed" =>
        \A blocks \in {ParsedBlocks} :
            /\ Len(files) = Len(blocks)
            /\ \A f \in 1..Len(files) :
                ~files[f].isBinary =>
                    \A headers \in {HeaderPositions(blocks[f])} :
                        /\ Len(files[f].chunks) = Cardinality(headers)
                        /\ \A c \in 1..Len(files[f].chunks) :
                            LET chunk == files[f].chunks[c]
                                match == HunkHeaderMatch(blocks[f][Kth(headers, c)])
                            IN  /\ chunk.oldLines = Declared(match.g2)
                                /\ chunk.newLines = Declared(match.g4)
                                /\ (/\ BodyCount(blocks[f], headers, c, {" ", "-"})
                                        = chunk.oldLines
                                    /\ BodyCount(blocks[f], headers, c, {" ", "+"})
                                        = chunk.newLines)
                                   => LineCountsMatch(chunk)

\* a parsed text with two well-formed hunks, one with defaulted counts and
\* one with explicit counts, both with lines
C1_Witness ==
    /\ pc = "parsed"
    /\ \E f \in 1..Len(files) :
        \E headers \in {HeaderPositions(ParsedBlocks[f])} :
            \E c, d \in 1..Len(files[f].chunks) :
                /\ HunkHeaderMatch(ParsedBlocks[f][Kth(headers, c)]).g2 = NoString
                /\ HunkHeaderMatch(ParsedBlocks[f][Kth(headers, d)]).g2 # NoString
                /\ files[f].chunks[c].lines # <<>>
                /\ files[f].chunks[d].lines # <<>>
                /\ LineCountsMatch(files[f].chunks[c])
                /\ LineCountsMatch(files[f].chunks[d])

\* how many of the first n lines of a chunk have a type outside the set
Before(chunk, n, types) ==
    Cardinality({j \in 1..n : chunk.lines[j].type \notin types})

\* C2: in every chunk the i-th line that is not added carries
\* oldStart + i - 1, the j-th line that is not deleted carries
\* newStart + j - 1, added lines carry no old number and deleted lines no new
\* number; the numbering restarts from the header of each chunk.
C2_LineNumbers ==
    pc = "parsed" =>
        \A f \in 1..Len(files) : \A c \in 1..Len(files[f].chunks) :
            LET chunk == files[f].chunks[c]
            IN  \A i \in 1..Len(chunk.lines) :
                LET l == chunk.lines[i]
                IN  /\ l.oldLineNumber =
                         IF l.type = "added" THEN Undefined
                         ELSE chunk.oldStart + Before(chunk, i - 1, {"added"})
                    /\ l.newLineNumber =
                         IF l.type = "deleted" THEN Undefined
                         ELSE chunk.newStart + Before(chunk, i - 1, {"deleted"})

\* a file with two chunks, the first with two numbered lines, the second
\* starting again from its own header
C2_Witness ==
    /\ pc = "parsed"
    /\ \E f \in 1..Len(files) :
        /\ Len(files[f].chunks) = 2
        /\ Len(files[f].chunks[1].lines) = 2
        /\ Len(files[f].chunks[2].lines) = 1
        /\ files[f].chunks[1].oldStart # files[f].chunks[2].oldStart
        /\ files[f].chunks[2].lines[1].type = "context"

\* the marker line git writes for a binary file
IsBinaryMarker(line) ==
    /\ StartsWith(line, "Binary files")
    /\ line[Len(line)] = " differ"

\* C3: a parsed block that holds a 'Binary files ... differ' line gives a
\* DiffFile with isBinary, no chunks and zero counts, whatever else the block
\* holds; and every DiffFile with isBinary has no chunks and zero counts.
C3_BinaryFiles ==
    pc = "parsed" =>
        /\ Len(files) = Len(ParsedBlocks)
        /\ \A f \in 1..Len(files) :
            /\ (\E i \in 1..Len(ParsedBlocks[f]) : IsBinaryMarker(ParsedBlocks[f][i]))
                => files[f].isBinary
            /\ files[f].isBinary =>
                /\ files[f].chunks = <<>>
                /\ files[f].additions = 0
                /\ files[f].deletions = 0

\* a binary file whose block also holds a hunk header and an added line
\* after it, the marker coming last
C3_Witness ==
    /\ pc = "parsed"
    /\ \E f \in 1..Len(files) :
        LET lines == ParsedBlocks[f]
        IN  /\ files[f].isBinary
            /\ \E i, j, k \in 1..Len(lines) :
                /\ i < j /\ j < k
                /\ HunkHeaderMatch(lines[i]).ok
                /\ StartsWith(lines[j], "+")
                /\ IsBinaryMarker(lines[k])

\* the paths the texts are written with
Paths == { <<"f">>, <<"g", ".PNG">>, <<"d", " b/", "g", ".PNG">> }

\* the pre-image and post-image paths a 'diff --git' line was written with
WrittenPaths(firstLine) ==
    CHOOSE p \in Paths \X Paths : firstLine = <<"a/">> \o p[1] \o <<" b/">> \o p[2]

\* C4 as stated: the status follows the precedence new file mode, deleted
\* file mode, rename from, else modified; the filename is the pre-image path
\* of a deleted file and the post-image path of any other.
C4_StatusAndFilename ==
    pc = "parsed" =>
        /\ Len(files) = Len(ParsedBlocks)
        /\ \A f \in 1..Len(files) :
            LET lines == ParsedBlocks[f]
                has(m) == \E i \in 1..Len(lines) : StartsWith(lines[i], m)
            IN  /\ files[f].status =
                     (IF has("new file mode") THEN "added"
                      ELSE IF has("deleted file mode") THEN "deleted"
                      ELSE IF has("rename from") THEN "renamed" ELSE "modified")
                /\ files[f].filename =
                     (IF files[f].status = "deleted"
                      THEN WrittenPaths(lines[1])[1] ELSE WrittenPaths(lines[1])[2])

\* positions of the lines of the text that begin with 'diff --git '
SplitPositions == {i \in 1..Len(rawDiff) : StartsWith(rawDiff[i], "diff --git ")}

\* those whose rest is 'a/<old> b/<new>'
AcceptedHeaders == {i \in SplitPositions : FileMatch(Tail(rawDiff[i])).ok}

\* the text of the block that begins at line i, on its own: up to the line
\* break before the next 'diff --git ', or to the end of the text
BlockTextAt(i) ==
    LET later == {j \in SplitPositions : j > i}
    IN  IF later = {} THEN SubSeq(rawDiff, i, Len(rawDiff))
        ELSE SubSeq(rawDiff, i, Kth(later, 1) - 1) \o << <<>> >>

\* C11: the parser returns one DiffFile per block whose first line is
\* 'a/<old> b/<new>', in the order of the blocks in the text; the k-th
\* DiffFile is the one the k-th such block gives when parsed on its own, so
\* the blocks that are skipped change neither the others' content nor their
\* order, and the parse never fails.
C11_OrderAndSkipping ==
    pc = "parsed" =>
        \A accepted \in {AcceptedHeaders} :
            /\ Len(files) = Cardinality(accepted)
            /\ \A f \in 1..Len(files) :
                <<files[f]>> = parseDiffOutput(BlockTextAt(Kth(accepted, f)))

\* two different files parsed from a text with a skipped block between them
C11_Witness ==
    /\ pc = "parsed"
    /\ Len(files) = 2
    /\ files[1].filename # files[2].filename
    /\ \E i \in SplitPositions \ AcceptedHeaders :
        /\ Kth(AcceptedHeaders, 1) < i
        /\ i < Kth(AcceptedHeaders, 2)

\* the lines of the given type in a sequence of chunks, as (chunk, line)
TypedLines(chunks, type) ==
    { p \in UNION { {<<c, i>> : i \in 1..Len(chunks[c].lines)} : c \in 1..Len(chunks) } :
        chunks[p[1]].lines[p[2]].type = type }

\* C12: in every DiffFile that is not binary, additions is the number of
\* lines typed added and deletions the number of lines typed deleted, over all
\* the chunks of the file; context lines are in neither count.
C12_AdditionsAndDeletions ==
    pc = "parsed" =>
        \A f \in 1..Len(files) :
            ~files[f].isBinary =>
                /\ files[f].additions = Cardinality(TypedLines(files[f].chunks, "added"))
                /\ files[f].deletions = Cardinality(TypedLines(files[f].chunks, "deleted"))

\* a file with two chunks: an added and a context line in the first, a
\* deleted line in the second
C12_Witness ==
    /\ pc = "parsed"
    /\ \E f \in 1..Len(files) :
        /\ Len(files[f].chunks) = 2
        /\ TypedLines(files[f].chunks, "context") # {}
        /\ \E p \in TypedLines(files[f].chunks, "added") : p[1] = 1
        /\ \E p \in TypedLines(files[f].chunks, "deleted") : p[1] = 2
        /\ files[f].additions >= 1 /\ files[f].deletions >= 1

\* C13 as stated: oldFilename is present exactly when the status is renamed;
\* it is then the pre-image path of the header and differs from filename; a
\* renamed file that is not binary has one chunk per hunk header of its block.
C13_OldFilename ==
    pc = "parsed" =>
        /\ Len(files) = Len(ParsedBlocks)
        /\ \A f \in 1..Len(files) :
            LET lines == ParsedBlocks[f]
            IN  /\ (files[f].oldFilename # NoString) <=> (files[f].status = "renamed")
                /\ files[f].status = "renamed" =>
                    /\ files[f].oldFilename = WrittenPaths(lines[1])[1]
                    /\ files[f].oldFilename # files[f].filename
                    /\ ~files[f].isBinary =>
                        Len(files[f].chunks) = Cardinality(HeaderPositions(lines))

\* the lowercased text of a name from its last '.', NoString without one
Extension(name) ==
    LET dots == {i \in 1..Len(name) : name[i] \in DotPieces}
    IN  IF dots = {} THEN NoString
        ELSE ToLowerCase(SubSeq(name, Kth(dots, Cardinality(dots)), Len(name)))

\* C14 as stated: isImage holds exactly when isBinary holds and the
\* extension of filename is one of the image extensions; for a deleted file
\* the name tested is the pre-image path of the header.
C14_IsImage ==
    pc = "parsed" =>
        /\ Len(files) = Len(ParsedBlocks)
        /\ \A f \in 1..Len(files) :
            LET tested == IF files[f].status = "deleted"
                          THEN WrittenPaths(ParsedBlocks[f][1])[1]
                          ELSE files[f].filename
            IN  files[f].isImage <=>
                    /\ files[f].isBinary
                    /\ \E e \in ImageExtensions : Extension(tested) = <<e>>

(***************************************************************************)
(* Properties of parseDiff.                                                *)
(***************************************************************************)
\* empty or whitespace-only
Blank(str) == str = <<>> \/ TrimIsEmpty(str)

Called == pc \notin {"idle", "input", "parsed"}

IoEvents(op) == {i \in 1..Len(io) : io[i].op = op}

\* the no-commit branch was taken: git.status() was called
FallbackEntered == IoEvents("status") # {}

\* C5 as stated: whatever the target, a blank target or a blank base makes
\* the call fail with the error that names the blank side, and no response
\* is returned.
C5_BlankSideFails ==
    (pc = "done" /\ (Blank(target) \/ Blank(base))) =>
        /\ result.kind = "error"
        /\ result.message = <<"Failed to parse diff: ">> \o
              (IF Blank(target) THEN <<"Target commit cannot be empty">>
               ELSE <<"Compare-with commit cannot be empty">>)

\* C6: with a blank target the call fails with 'Target commit cannot be
\* empty' and no call to git or to the filesystem is ever made.
C6_BlankTargetFailsBeforeIO ==
    (Called /\ Blank(target)) =>
        /\ io = <<>>
        /\ pc \in {"validate", "done"}
        /\ pc = "done" =>
            /\ result.kind = "error"
            /\ result.message =
                 <<"Failed to parse diff: ", "Target commit cannot be empty">>

\* a call with a whitespace-only target and a resolvable base has failed
C6_Witness ==
    /\ pc = "done"
    /\ target = <<"  ">>
    /\ base = <<"HEAD">>
    /\ result.kind = "error"

Specials == {<<"working">>, <<"staged">>, <<".">>}

\* C7 as stated: a reference that fails to resolve fails the call with the
\* wrapped error when the target is staged or an ordinary reference; with
\* target '.' it sends the call to the no-commit branch under the label
\* 'Working Directory (all files)'; that branch is entered only with target
\* '.' after base failed to resolve; target working resolves nothing.
C7_ResolutionFailures ==
    /\ \A i \in IoEvents("revparse") :
        ~io[i].ok =>
            IF target = <<".">>
            THEN /\ resolvedCommit = <<"Working Directory (all files)">>
                 /\ pc = "done" => FallbackEntered
                 /\ result.kind = "error" =>
                        result.message # <<"Failed to parse diff: ">> \o io[i].out
            ELSE /\ pc = "done"
                 /\ result.kind = "error"
                 /\ result.message = <<"Failed to parse diff: ">> \o io[i].out
    /\ FallbackEntered =>
        /\ target = <<".">>
        /\ io[1] = RevParseEvent(base, FALSE)
        /\ resolvedCommit = <<"Working Directory (all files)">>
    /\ target = <<"working">> => IoEvents("revparse") = {}

\* C8: a finished call has either returned a response with files, commit
\* and isEmpty, or thrown one error 'Failed to parse diff: ' followed by the
\* message of the failure that stopped it, and then nothing of a response
\* exists; a failure of git diff or git status always ends in that error.
C8_AllOrNothing ==
    /\ pc # "done" => result = NoResult
    /\ pc = "done" =>
        \/ /\ result.kind = "response"
           /\ result.files = parseDiffOutput(rawDiff)
           /\ result.commit = resolvedCommit /\ result.commit # NoString
           /\ result.message = NoString
           /\ \A i \in 1..Len(io) :
                ~io[i].ok => \/ io[i].op \in {"stat", "readFile"}
                             \/ io[i].op = "revparse" /\ target = <<".">>
        \/ /\ result.kind = "error"
           /\ result.files = <<>> /\ files = <<>> /\ result.commit = NoString
           /\ result.message = <<"Failed to parse diff: ">> \o
                (IF io = <<>> THEN validateDiffArguments(target, base).error
                 ELSE io[Len(io)].out)
           /\ io = <<>> => ~validateDiffArguments(target, base).valid
           /\ io # <<>> => /\ ~io[Len(io)].ok
                           /\ io[Len(io)].op \in {"revparse", "raw", "status"}

\* a call that failed in git status, after base had failed to resolve
C8_Witness ==
    /\ pc = "done"
    /\ result.kind = "error"
    /\ Len(io) = 2
    /\ io[1].op = "revparse" /\ ~io[1].ok
    /\ io[2].op = "status" /\ ~io[2].ok

\* the successful reads of the no-commit branch, in order
SuccessfulReads == SelectSeq(io, LAMBDA e : e.op = "readFile" /\ e.ok)

\* the DiffFile C9 expects for a file that was read
AllAdded(file, filename, content) ==
    /\ file.filename = filename
    /\ file.status = "added"
    /\ Len(file.chunks) = 1
    /\ file.chunks[1].oldStart = 0 /\ file.chunks[1].oldLines = 0
    /\ file.chunks[1].newStart = 1
    /\ file.chunks[1].newLines = Len(content)
    /\ Len(file.chunks[1].lines) = Len(content)
    /\ \A i \in 1..Len(content) :
        /\ file.chunks[1].lines[i].type = "added"
        /\ file.chunks[1].lines[i].content = content[i]

\* C9 as stated: in the no-commit branch the paths that cannot be read or
\* are not regular files are skipped, and the response holds, in order, one
\* DiffFile per file that was read, with status added and one chunk
\* -0,0 +1,n whose n lines are all added.
C9_SyntheticDiff ==
    (pc = "done" /\ FallbackEntered /\ result.kind = "response") =>
        /\ Len(result.files) = Len(SuccessfulReads)
        /\ \A i \in 1..Len(SuccessfulReads) :
            i <= Len(result.files) =>
                AllAdded(result.files[i], SuccessfulReads[i].args[1],
                         SuccessfulReads[i].out)

\* C10: a response has isEmpty exactly when it has no files, and an empty
\* diff text gives no files.
C10_IsEmpty ==
    (pc = "done" /\ result.kind = "response") =>
        /\ result.isEmpty <=> (result.files = <<>>)
        /\ rawDiff = EmptyText => (result.files = <<>> /\ result.isEmpty)

\* the no-commit branch with an empty list of files has answered
C10_Witness ==
    /\ pc = "done"
    /\ result.kind = "response"
    /\ FallbackEntered
    /\ allFiles = <<>>
    /\ result.isEmpty

\* the identifier the n-th call of revparse answered with
ResolvedAt(n) == io[Kth(IoEvents("revparse"), n)].out

\* the first 7 characters of an identifier of 7 characters or more
First7(id) == [i \in 1..7 |-> id[i]]

\* C15: the label of a response is '<shortBase>..<shortTarget>' for two
\* references, '<shortBase> vs Staging Area (staged changes)' for staged,
\* '<shortBase> vs Working Directory (all uncommitted changes)' for '.' with
\* a base that resolves, 'Working Directory (all files)' for '.' with a base
\* that does not, and 'Working Directory (unstaged changes)' for working;
\* short is the first 7 characters of what the reference resolved to.
C15_Label ==
    (pc = "done" /\ result.kind = "response") =>
        result.commit =
            IF target = <<"working">> THEN <<"Working Directory (unstaged changes)">>
            ELSE IF target = <<"staged">>
            THEN First7(ResolvedAt(1)) \o <<" vs Staging Area (staged changes)">>
            ELSE IF target = <<".">>
            THEN IF io[1].ok
                 THEN First7(ResolvedAt(1))
                          \o <<" vs Working Directory (all uncommitted changes)">>
                 ELSE <<"Working Directory (all files)">>
            ELSE First7(ResolvedAt(2)) \o <<"..">> \o First7(ResolvedAt(1))

\* a response for two references whose identifiers are longer than 7
\* characters and differ
C15_Witness ==
    /\ pc = "done"
    /\ result.kind = "response"
    /\ target = <<"main">> /\ base = <<"HEAD">>
    /\ Len(ResolvedAt(1)) > 7 /\ Len(ResolvedAt(2)) > 7
    /\ result.commit = <<"a", "a", "a", "a", "1", "1", "1", "..",
                         "b", "b", "b", "2", "2", "2", "2">>

\* the calls that produce the text: git diff, or git status in the fallback
DiffOperations == IoEvents("raw") \cup IoEvents("status")

WhitespaceFlag == <<"--ignore-all-space">>

WithoutFlag(args) == SelectSeq(args, LAMBDA a : a # WhitespaceFlag)

\* the reference arguments parseDiff builds, from the target, the base and
\* whether the base resolved
ReferenceArguments(okBase) ==
    IF target = <<"working">> THEN <<>>
    ELSE IF target = <<"staged">> THEN << <<"--cached">>, base >>
    ELSE IF target = <<".">>
    THEN IF okBase THEN << base >> ELSE << <<"--no-index">>, <<"/dev/null">> >>
    ELSE << base, target >>

\* C16: the label, the branch taken (git diff without references, git diff
\* with references, or the fallback's git status) and the arguments other than
\* the flag are fixed by the target, the base and the outcome of the
\* resolutions, whatever ignoreWhitespace is; ignoreWhitespace adds the flag
\* as the last argument of git diff and nothing else.
C16_WhitespaceFlagOnly ==
    /\ Cardinality(DiffOperations) <= 1
    /\ \A i \in DiffOperations :
        LET okBase == \A r \in IoEvents("revparse") : io[r].ok
            refs == ReferenceArguments(okBase)
            fallback == \E k \in 1..Len(refs) : refs[k] = <<"--no-index">>
        IN  /\ io[i].op = IF fallback THEN "status" ELSE "raw"
            /\ fallback => io[i].args = <<>>
            /\ ~fallback =>
                /\ WithoutFlag(io[i].args) = << <<"diff">>, <<"--unified=3">> >> \o refs
                /\ io[i].args = WithoutFlag(io[i].args)
                        \o (IF ignoreWhitespace THEN <<WhitespaceFlag>> ELSE <<>>)
            /\ resolvedCommit =
                 IF target = <<"working">> THEN <<"Working Directory (unstaged changes)">>
                 ELSE IF target = <<"staged">>
                 THEN First7(ResolvedAt(1)) \o <<" vs Staging Area (staged changes)">>
                 ELSE IF target = <<".">>
                 THEN IF okBase
                      THEN First7(ResolvedAt(1))
                               \o <<" vs Working Directory (all uncommitted changes)">>
                      ELSE <<"Working Directory (all files)">>
                 ELSE First7(ResolvedAt(2)) \o <<"..">> \o First7(ResolvedAt(1))

\* the fallback has answered under ignoreWhitespace, through git status and
\* a file that was read
C16_Witness ==
    /\ pc = "done"
    /\ ignoreWhitespace
    /\ target = <<".">>
    /\ result.kind = "response"
    /\ IoEvents("status") # {} /\ IoEvents("raw") = {}
    /\ Len(result.files) >= 1

\* C17 as stated: working runs git diff with no reference and resolves
\* nothing; staged runs '--cached <base>'; '.' with a base that resolves runs
\* '<base>'; any other target runs '<base> <target>'; every git diff is asked
\* for 3 lines of context; the fallback, '.' with a base that does not
\* resolve, runs git status and file reads and no git diff.
C17_OperationByTarget ==
    /\ target = <<"working">> => IoEvents("revparse") = {}
    /\ \A i \in DiffOperations :
        LET okBase == \A r \in IoEvents("revparse") : io[r].ok
        IN  IF target = <<".">> /\ ~okBase
            THEN io[i].op = "status"
            ELSE /\ io[i].op = "raw"
                 /\ WithoutFlag(io[i].args) =
                      << <<"diff">>, <<"--unified=3">> >> \o
                      (IF target = <<"working">> THEN <<>>
                       ELSE IF target = <<"staged">> THEN << <<"--cached">>, base >>
                       ELSE IF target = <<".">> THEN << base >>
                       ELSE << base, target >>)
    /\ \A i \in IoEvents("stat") \cup IoEvents("readFile") :
        /\ IoEvents("raw") = {}
        /\ \E j \in IoEvents("status") : j < i

\* the ports findAvailablePort has tried, in order
Probes == [i \in 1..Len(io) |-> io[i].args[1]]

\* the probes go up by one from the preferred port, every probe but the
\* last failed with EADDRINUSE, and the search is over exactly when the last
\* probe succeeded (resolved) or failed otherwise (rejected)
ProbesInOrder ==
    /\ \A i \in 1..Len(io) : io[i].op = "listen"
    /\ \A i \in 1..(Len(io) - 1) :
        /\ Probes[i + 1] = Probes[i] + 1
        /\ ~io[i].ok /\ io[i].out = "EADDRINUSE"
    /\ found.kind = "resolved" <=> (io # <<>> /\ io[Len(io)].ok)
    /\ found.kind = "rejected" <=>
            (io # <<>> /\ ~io[Len(io)].ok /\ io[Len(io)].out # "EADDRINUSE")
    /\ found.kind = "rejected" => found.code = io[Len(io)].out

\* C19 as stated: the search probes p, p+1, ... in order, resolves to the
\* first port whose listen did not fail with EADDRINUSE, and rejects on any
\* other error.
C19_ResolvesToProbedPort ==
    /\ ProbesInOrder
    /\ found.kind = "resolved" => found.port = Probes[Len(io)]

SearchOver == found.kind \in {"resolved", "rejected"}

FreePortAhead ==
    /\ found.kind = "pending"
    /\ \/ preferredPort = 0
       \/ \E q \in PortRange : q >= preferredPort /\ ports[q] = "free"

\* C19 amended: the search probes p, p+1, ... in order, stops at the first
\* port whose listen did not fail with EADDRINUSE, rejects if that listen
\* failed, and else resolves to the port the probe is bound to: the probed
\* port when it is not 0, the port the system assigned when it is 0; a search
\* with a free port at or above p ends.
C19_PortSearch ==
    /\ [](/\ ProbesInOrder
          /\ found.kind = "resolved" =>
                /\ found.port = io[Len(io)].out
                /\ Probes[Len(io)] # 0 => found.port = Probes[Len(io)]
                /\ Probes[Len(io)] = 0 => found.port \notin {0} \cup PortRange)
    /\ (FreePortAhead ~> SearchOver)

\* a search that resolved to the third port after two ports in use
C19_Witness ==
    /\ found.kind = "resolved"
    /\ Len(io) = 3
    /\ found.port = io[1].args[1] + 2
    /\ ports[found.port] = "free"

\* the CLI was run with an ordinary first argument and no compare-with
SingleCommitRun ==
    /\ cli.pc # "idle"
    /\ ~isSpecialArg(cli.commitish)
    /\ ~Blank(cli.commitish)
    /\ cli.compareWith = Absent

\* the reference T resolved
CommitResolved(T) ==
    \E i \in IoEvents("revparse") : io[i].args = <<T>> /\ io[i].ok

\* C18 as stated: run with one ordinary argument T and no compare-with, for
\* every T that resolves, the CLI does not exit with an error (unless git diff
\* or the port search fails) and the diff it serves is that of T's parent
\* against T.
C18_SingleCommit ==
    (SingleCommitRun /\ CommitResolved(cli.commitish)) =>
        /\ cli.exit = 1 =>
            \/ \E i \in IoEvents("raw") : ~io[i].ok
            \/ found.kind = "rejected"
        /\ cli.pc = "running" =>
            \E i \in IoEvents("raw") :
                /\ io[i].ok
                /\ io[i].args = << <<"diff">>, <<"--unified=3">>,
                                   cli.commitish \o <<"^">>, cli.commitish >>

\* C20 as stated: a run of the CLI without --host gives serve() the
\* hostname '127.0.0.1'.
C20_LoopbackByDefault ==
    (server.serving /\ cli.options.host = <<>>) => server.hostname = DefaultHost

\* C21 as stated: a DiffFile is binary only if its block holds a marker line
\* 'Binary files ... differ'; a block without one is not binary and keeps one
\* chunk per hunk header, whatever its content lines say.
C21_BinaryOnlyByMarker ==
    pc = "parsed" =>
        /\ Len(files) = Len(ParsedBlocks)
        /\ \A f \in 1..Len(files) :
            LET lines == ParsedBlocks[f]
            IN  (\A i \in 1..Len(lines) : ~IsBinaryMarker(lines[i])) =>
                    /\ ~files[f].isBinary
                    /\ Len(files[f].chunks) = Cardinality(HeaderPositions(lines))

\* the lines of the body of the k-th hunk that begin with ' ', '+' or '-'
ContentPositions(lines, headers, k) ==
    {j \in HunkBody(lines, headers, k) :
        Len(lines[j]) >= 1 /\ lines[j][1] \in {" ", "+", "-"}}

\* C23: a block that is not binary gives one chunk per line matching the
\* hunk header, in order; its starts are the header's numbers, a count is the
\* header's, 1 when left out and 0 when written 0; its DiffLines are the
\* lines of its body that begin with ' ', '+' or '-', in order, and nothing
\* else; a block without header gives no chunk and zero counts; the last
\* chunk is emitted.
C23_ChunkPerHeader ==
    pc = "parsed" =>
        \A blocks \in {ParsedBlocks} :
            /\ Len(files) = Len(blocks)
            /\ \A f \in 1..Len(files) :
                ~files[f].isBinary =>
                    \A headers \in {HeaderPositions(blocks[f])} :
                        /\ Len(files[f].chunks) = Cardinality(headers)
                        /\ headers = {} =>
                            files[f].additions = 0 /\ files[f].deletions = 0
                        /\ \A c \in 1..Len(files[f].chunks) :
                            LET chunk == files[f].chunks[c]
                                match == HunkHeaderMatch(blocks[f][Kth(headers, c)])
                                body == ContentPositions(blocks[f], headers, c)
                            IN  /\ chunk.oldStart = parseInt(match.g1)
                                /\ chunk.newStart = parseInt(match.g3)
                                /\ chunk.oldLines = Declared(match.g2)
                                /\ chunk.newLines = Declared(match.g4)
                                /\ Len(chunk.lines) = Cardinality(body)
                                /\ \A n \in 1..Len(chunk.lines) :
                                    chunk.lines[n].content = Tail(blocks[f][Kth(body, n)])

\* a file with two chunks: a header without counts gave counts of 1, a
\* header with a count written 0 kept it, and a line of the body that is no
\* content line was left out
C23_Witness ==
    /\ pc = "parsed"
    /\ \E f \in 1..Len(files) :
        \E headers \in {HeaderPositions(ParsedBlocks[f])} :
            /\ Len(files[f].chunks) = 2
            /\ \E c, d \in 1..2 :
                /\ HunkHeaderMatch(ParsedBlocks[f][Kth(headers, c)]).g2 = NoString
                /\ files[f].chunks[c].oldLines = 1
                /\ files[f].chunks[c].oldStart = 5
                /\ HunkHeaderMatch(ParsedBlocks[f][Kth(headers, d)]).g4 = <<"0">>
                /\ files[f].chunks[d].newLines = 0
            /\ \E k \in 1..2 :
                \E j \in HunkBody(ParsedBlocks[f], headers, k) :
                    /\ j \notin ContentPositions(ParsedBlocks[f], headers, k)
                    /\ ParsedBlocks[f][j] # <<>>
            /\ files[f].chunks[2].lines # <<>>

\* C22 as stated: the paths given to createSyntheticDiffForAllFiles are
\* those of status.files and status.not_added, each once, and the response
\* has at most one DiffFile for a path.
C22_PathsOnce ==
    FallbackEntered =>
        /\ \A i, j \in 1..Len(allFiles) : allFiles[i] = allFiles[j] => i = j
        /\ \A s \in IoEvents("status") :
            io[s].ok =>
                {allFiles[i] : i \in 1..Len(allFiles)} =
                    {io[s].out.files[i] : i \in 1..Len(io[s].out.files)}
                    \cup {io[s].out.not_added[i] : i \in 1..Len(io[s].out.not_added)}
        /\ (pc = "done" /\ result.kind = "response") =>
            \A i, j \in 1..Len(result.files) :
                result.files[i].filename = result.files[j].filename => i = j

\* a run of the CLI with an ordinary first argument and no compare-with, in a
\* repository where HEAD does not resolve
NoCommitsRun ==
    /\ cli.pc \notin {"idle", "base"}
    /\ ~isSpecialArg(cli.commitish)
    /\ ~Truthy(cli.compareWith)
    /\ \E i \in IoEvents("revparse") : io[i].args = << <<"HEAD">> >> /\ ~io[i].ok

\* C24: in a repository without commits, a run with an ordinary target and no
\* compare-with is turned into target '.' with base HEAD; parseDiff takes the
\* synthetic fallback and labels the result 'Working Directory (all files)';
\* the user is not asked about untracked files and no 'git add' is run; the
\* run ends in an error only when git status or the port search fails.
C24_NoCommitsRun ==
    NoCommitsRun =>
        /\ cli.targetCommitish = <<".">>
        /\ cli.baseCommitish = <<"HEAD">>
        /\ IoEvents("question") = {}
        /\ IoEvents("raw") = {}
        /\ (cli.pc \in {"parsing", "port", "started", "running"} /\ pc \in {"flags", "diff", "synth", "parse", "done"}) =>
                /\ resolvedCommit = <<"Working Directory (all files)">>
                /\ IsSyntheticMode(diffArgs)
        /\ (pc = "done" /\ cli.pc \in {"parsing", "port", "started", "running"} /\ result.kind = "error") =>
                \E i \in IoEvents("status") : ~io[i].ok
        /\ cli.exit = 1 =>
                \/ \E i \in IoEvents("status") : ~io[i].ok
                \/ found.kind = "rejected"
        /\ cli.pc = "running" =>
                /\ result.kind = "response"
                /\ result.commit = <<"Working Directory (all files)">>

\* C24's case: such a run is serving the files of the working directory
C24_Witness ==
    /\ NoCommitsRun
    /\ cli.pc = "running"
    /\ cli.commitish = <<"main">>
    /\ result.kind = "response"
    /\ result.commit = <<"Working Directory (all files)">>
    /\ Len(result.files) >= 1

\* C25 as stated: when SIGINT ends the process after the server has started,
\* the CLI's handler has run first: 'Shutting down compeek server...' was
\* printed and /api/comments-output was requested before process.exit.
C25_CliHandlerRunsFirst ==
    (cli.pc = "exited" /\ cli.exit = 0) =>
        /\ \E i \in IoEvents("log") :
                io[i].args = <<"Shutting down compeek server...">>
        /\ \E i \in IoEvents("fetch") :
                io[i].args = <<"http://localhost:", server.port, "/api/comments-output">>

\* C27 as stated: the port and the url that the CLI prints as 'server
\* started' belong to a server that is bound to that port, whatever other
\* processes did to the port between the probe and serve().
C27_StartedMeansListening ==
    \A i \in IoEvents("log") :
        io[i].args = <<"compeek server started on ", server.url>> =>
            /\ server.bound
            /\ io[i].out = server.port

\* the browser was asked to open
BrowserOpened == IoEvents("open") # {}

\* C28: startServer opens the browser exactly when openBrowser is set and the
\* diff is not empty; with an empty diff the browser is not opened and the
\* server is started all the same; a browser that fails to open does not make
\* startServer fail.
C28_BrowserOnlyForChanges ==
    /\ ~server.serving => ~BrowserOpened
    /\ server.serving =>
        /\ BrowserOpened <=> (cli.options.open /\ ~result.isEmpty)
        /\ \A i \in IoEvents("open") : io[i].args = <<server.url>>
        /\ Cardinality(IoEvents("open")) <= 1
    /\ (result.kind = "response" /\ found.kind = "resolved" /\ cli.pc # "port") =>
            server.serving
    /\ (\E i \in IoEvents("open") : ~io[i].ok) => (server.serving /\ cli.exit # 1)

\* C28's case: a run asked to open the browser found no differences; the
\* server runs and the browser was left alone
C28_Witness ==
    /\ cli.pc = "running"
    /\ cli.options.open
    /\ result.kind = "response" /\ result.isEmpty
    /\ server.serving
    /\ ~BrowserOpened

\* the calls of 'git add' made so far
AddEvents == {i \in IoEvents("raw") : io[i].args[1] = <<"add">>}

\* the paths of a list that do not start with '.'
NonDotPaths(paths) ==
    SelectSeq(paths, LAMBDA f : ~(Len(f) >= 1 /\ f[1] \in DotPieces))

\* an answer that is '', 'y' or 'yes' between white space, in any case
Consents(answer) ==
    \E a, b \in 0..Len(answer) :
        /\ a + b <= Len(answer)
        /\ \A i \in 1..a : answer[i] = " "
        /\ \A i \in (Len(answer) - b + 1)..Len(answer) : answer[i] = " "
        /\ SubSeq(answer, a + 1, Len(answer) - b)
                \in {<<>>, <<"y">>, <<"Y">>, <<"yes">>, <<"YES">>}

\* the untracked-files step of the run is over
UntrackedHandled == cli.pc \notin {"idle", "base", "untracked", "prompt"}

\* C29: 'git add --intent-to-add' is run only when the first argument is
\* 'working' or '.', git status reports an untracked path not starting with
\* '.', and the answer, trimmed and lowercased, is '', 'y' or 'yes'; it is
\* given exactly those paths; on another answer, or without such paths, it is
\* not run.
C29_IntentToAdd ==
    /\ Cardinality(AddEvents) <= 1
    /\ \A i \in AddEvents :
        /\ cli.commitish \in {<<"working">>, <<".">>}
        /\ i = 3
        /\ io[1].op = "status" /\ io[1].ok
        /\ NonDotPaths(io[1].out.not_added) # <<>>
        /\ io[2].op = "question" /\ Consents(io[2].out)
        /\ io[i].args = << <<"add">>, <<"--intent-to-add">> >>
                            \o NonDotPaths(io[1].out.not_added)
    /\ UntrackedHandled =>
        (AddEvents # {} <=>
            /\ cli.commitish \in {<<"working">>, <<".">>}
            /\ Len(io) >= 2
            /\ io[1].op = "status" /\ io[1].ok
            /\ NonDotPaths(io[1].out.not_added) # <<>>
            /\ io[2].op = "question" /\ Consents(io[2].out))
    /\ (UntrackedHandled /\ cli.commitish \in {<<"working">>, <<".">>}) =>
        /\ io[1].op = "status"
        /\ (io[1].ok /\ NonDotPaths(io[1].out.not_added) # <<>>) =>
                io[2].op = "question"

\* C29's case: the user answered ' YES ' and the one untracked path that
\* does not start with '.' was added, the other left alone
C29_Witness ==
    /\ cli.pc = "running"
    /\ \E i \in AddEvents :
        /\ io[i].ok
        /\ io[i].args = << <<"add">>, <<"--intent-to-add">>, <<"p">> >>
        /\ io[1].out.not_added = << <<".txt">>, <<"p">> >>
        /\ io[2].out = <<" ", "YES", " ">>

\* the last load of the App that has completed
LastLoad == io[Len(io)]

\* C26 as stated: whenever the load that completed last was successful, the
\* App shows the diff view, or 'No differences found' for an empty diff,
\* whatever loads failed before it.
C26_RetryLeavesErrorScreen ==
    (io # <<>> /\ LastLoad.op = "fetch" /\ LastLoad.args = <<"/api/diff">> /\ LastLoad.ok) =>
        View = (IF LastLoad.out.isEmpty THEN "empty" ELSE "diff")

====
